---- MODULE Spec2Model ----
(***************************************************************************)
(* Assessment session orchestrator of the English-exam trainer: the App    *)
(* mode machine (handleConfigSave, handleVocabStart, handleTestStart, the  *)
(* navigation callbacks) and TestPaperView (handleAnswer, handleSubmit),   *)
(* in both variants of the view code and over both gateway modules.        *)
(*                                                                         *)
(* Text is a sequence of characters; an optional value (null / undefined / *)
(* an absent key) is the empty sequence Null or the one-element Some(x).   *)
(***************************************************************************)
EXTENDS Integers, Sequences, FiniteSets, TLC

\* ---------------------------------------------------------------- bounds
\* longest text typed into a boolean / fill_in_blank input
MaxLen == 2
\* submissions and playbacks that may still be running for views that were left
MaxOrphans == 1
\* answer edits made while one submission is being graded
MaxGradingEdits == 1
\* the Dashboard offers the units 1..MaxUnit (the application: 1..12)
MaxUnit == 2
\* longest audio payload that is decoded, in bytes
MaxBytes == 4
\* latest reading of Date.now(), counted from 1
MaxClock == 2
\* most vocabulary items the service answers with
MaxItems == 2
\* most pieces a grammar story is put together from
MaxPieces == 2

\* ------------------------------------------------------------- text
Chars == {"a", "A", " "}

Strs(n) == UNION {[1..k -> Chars] : k \in 0..n}

Null == <<>>
Some(x) == <<x>>

\* String.prototype.toLowerCase
LowerChar(c) == IF c = "A" THEN "a" ELSE c
ToLowerCase(s) == [i \in 1..Len(s) |-> LowerChar(s[i])]

\* String.prototype.trim
RECURSIVE TrimStart(_)
TrimStart(s) == IF s # <<>> /\ Head(s) = " " THEN TrimStart(Tail(s)) ELSE s
RECURSIVE TrimEnd(_)
TrimEnd(s) ==
  IF s # <<>> /\ s[Len(s)] = " " THEN TrimEnd(SubSeq(s, 1, Len(s) - 1)) ELSE s
Trim(s) == TrimEnd(TrimStart(s))

\* String.prototype.charAt(0): "" for the empty string
CharAt0(s) == IF s = <<>> THEN <<>> ELSE <<Head(s)>>

\* ------------------------------------------------------------- audio
\* A base64 text is a sequence of character codes: 0..63 stand for the 64
\* characters of the alphabet (A-Z a-z 0-9 + /) by their value, Pad for "=",
\* NotBase64 for any character outside the alphabet.
Pad == 64
NotBase64 == 65
Sextets == 0..63

\* the encoding the speech service applies to its PCM bytes
RECURSIVE Base64Encode(_)
Base64Encode(bytes) ==
  IF bytes = <<>> THEN <<>>
  ELSE IF Len(bytes) = 1
  THEN <<bytes[1] \div 4, (bytes[1] % 4) * 16, Pad, Pad>>
  ELSE IF Len(bytes) = 2
  THEN <<bytes[1] \div 4, (bytes[1] % 4) * 16 + bytes[2] \div 16,
         (bytes[2] % 16) * 4, Pad>>
  ELSE <<bytes[1] \div 4, (bytes[1] % 4) * 16 + bytes[2] \div 16,
         (bytes[2] % 16) * 4 + bytes[3] \div 64, bytes[3] % 64>>
       \o Base64Encode(SubSeq(bytes, 4, Len(bytes)))

\* the bytes of a text of alphabet characters; left-over bits are dropped
RECURSIVE DecodeSextets(_)
DecodeSextets(t) ==
  IF Len(t) < 2 THEN <<>>
  ELSE IF Len(t) = 2 THEN <<t[1] * 4 + t[2] \div 16>>
  ELSE IF Len(t) = 3
  THEN <<t[1] * 4 + t[2] \div 16, (t[2] % 16) * 16 + t[3] \div 4>>
  ELSE <<t[1] * 4 + t[2] \div 16, (t[2] % 16) * 16 + t[3] \div 4,
         (t[3] % 4) * 64 + t[4]>>
       \o DecodeSextets(SubSeq(t, 5, Len(t)))

\* atob(text): Null where atob throws InvalidCharacterError, else the bytes.
\* One or two "=" at the end of a text whose length is a multiple of 4 are
\* removed first; a remaining length of 4k+1 or a character outside the
\* alphabet is an error.
Atob(text) ==
  LET n == Len(text)
      cut == IF n > 0 /\ n % 4 = 0 /\ text[n] = Pad
             THEN IF text[n - 1] = Pad THEN 2 ELSE 1
             ELSE 0
      t == SubSeq(text, 1, n - cut)
  IN IF Len(t) % 4 = 1 \/ \E i \in 1..Len(t) : t[i] \notin Sextets
     THEN Null
     ELSE Some(DecodeSextets(t))

\* element of an Int16Array over the bytes lo, hi (little-endian platform)
Int16Unsigned(lo, hi) == lo + 256 * hi

Int16BigEndian(lo, hi) ==
  LET u == hi + 256 * lo IN IF u >= 32768 THEN u - 65536 ELSE u

Int16At(lo, hi) ==
  LET u == lo + 256 * hi IN IF u >= 32768 THEN u - 65536 ELSE u

\* dataInt16[i] / 32768.0: the quotient is exact in a Float32Array, it is
\* kept as numerator and denominator
SampleScale == 32768
Float32Sample(n) == [num |-> n, den |-> SampleScale]

\* The decode steps of playAudio: Null where one of them throws (atob, or
\* new Int16Array(bytes.buffer) for an odd byte length), else the bytes and
\* the Float32Array made of them.
DecodeAudio(text) ==
  LET b == Atob(text)
  IN IF b = Null THEN Null
     ELSE IF Len(b[1]) % 2 = 1 THEN Null
     ELSE Some([bytes |-> b[1],
                buf |-> [i \in 1..(Len(b[1]) \div 2) |->
                           Float32Sample(Int16At(b[1][2 * i - 1], b[1][2 * i]))]])

\* ------------------------------------------------------------- types
Setup == "SETUP"
Dashboard == "DASHBOARD"
VocabPractice == "VOCAB_PRACTICE"
TestPaper == "TEST_PAPER"
AppMode == {Setup, Dashboard, VocabPractice, TestPaper}

\* what SetupView can save: one record per choice of the three selects
Configs ==
  { [publisher |-> "PEP", grade |-> "Grade 7", term |-> "Term 1"],
    [publisher |-> "PEP", grade |-> "Grade 8", term |-> "Term 1"] }

ObjectiveTypes == {"multiple_choice", "boolean", "fill_in_blank"}

Q(id, type, options, correct, max) ==
  [id |-> id, type |-> type, options |-> options, correctAnswer |-> correct,
   maxScore |-> max]

Section(id, type, questions) == [id |-> id, type |-> type, questions |-> questions]

\* Papers the generation service may answer with.  PaperListening carries a
\* listening script; PaperEssays has two writing questions with an objective
\* question between them; PaperBlank has a fill_in_blank question whose
\* correctAnswer ends in a space; PaperNoKey has a boolean question whose
\* correctAnswer key is missing (the response schema does not require it).
PaperListening ==
  [id |-> "test-1", listeningScript |-> Some(<<"a">>), listeningAudioBase64 |-> Null,
   sections |->
     << Section("s1", "listening",
          << Q("q1", "multiple_choice", Some(<< <<"A">>, <<"a", "a">> >>),
               Some(<<"a">>), 2) >>) >>]

PaperEssays ==
  [id |-> "test-2", listeningScript |-> Null, listeningAudioBase64 |-> Null,
   sections |->
     << Section("s1", "writing",
          << Q("w1", "writing", Null, Null, 5) >>),
        Section("s2", "reading",
          << Q("q2", "multiple_choice", Some(<< <<"a">>, <<"A", " ">> >>),
               Some(<<"A">>), 2),
             Q("w2", "writing", Null, Null, 5) >>) >>]

PaperBlank ==
  [id |-> "test-3", listeningScript |-> Null, listeningAudioBase64 |-> Null,
   sections |->
     << Section("s1", "reading",
          << Q("q1", "fill_in_blank", Null, Some(<<"a", " ">>), 3) >>) >>]

PaperNoKey ==
  [id |-> "test-4", listeningScript |-> Some(<<>>), listeningAudioBase64 |-> Null,
   sections |->
     << Section("s1", "reading",
          << Q("q1", "boolean", Null, Null, 1) >>) >>]

TestPapers == {PaperListening, PaperEssays, PaperBlank, PaperNoKey}

\* what generateVocabAndGrammar may answer with
PracticeResults ==
  { [vocab |-> <<"vocab-1-0", "vocab-1-1">>, grammar |-> "grammar"] }

\* base64 payloads generateSpeech may answer with: 16-bit PCM, here the one
\* sample 32767 (bytes 255, 127)
AudioPayloads == { Base64Encode(<<255, 127>>) }

\* essay texts typed into a writing textarea
Essays == { <<>>, <<"a">> }

\* scores the grader may return
GradeScores == {-1, 7}

Graded(score) == [score |-> score, feedback |-> "graded"]

\* the record gradeWriting of the direct gateway returns when grading failed
CouldNotGrade == [score |-> 0, feedback |-> "Could not grade automatically."]

\* ------------------------------------------------------------- gateway
\* the action tags the five client functions send
ActionTags ==
  {"generateVocabAndGrammar", "generateTestPaper", "generateSpeech", "gradeWriting",
   "lookupWord"}

\* A body is a text that is no JSON, or a JSON object: its error member (Null
\* when it has none) and what else it holds: the content of a kind, named by
\* the kind's tag, "partial" for an object lacking required members, "none".
TextBody(t) == [form |-> "text", error |-> Null, content |-> t]
JsonObject(err, content) == [form |-> "object", error |-> err, content |-> content]

Response(status, statusText, body) ==
  [status |-> status, statusText |-> statusText, body |-> body]

\* response.ok
Ok(resp) == resp.status \in 200..299

\* new Response(body, { headers }): status 200
Success(body) == Response(200, "OK", body)

\* how a handler ends: it returns a Response or throws an Error
Returned(resp) == [thrown |-> FALSE, message |-> "", resp |-> resp]
Thrown(message) == [thrown |-> TRUE, message |-> message, resp |-> Success(TextBody(""))]

\* What the model call of a handler does: "json" answers the JSON asked for,
\* "empty" answers without text, "garbled" answers a text that is no JSON,
\* "throws" and "throwsBlank" reject with an Error (with, without a message).
ServiceOutcomes == {"json", "empty", "garbled", "throws", "throwsBlank"}
ServiceMessage(service) == IF service = "throws" THEN "service failed" ELSE ""
ServiceThrows(service) == service \in {"throws", "throwsBlank"}

\* handlers destructure their payload: an absent payload throws a TypeError
HandleVocab(payload, service) ==
  IF payload = Null THEN Thrown("TypeError")
  ELSE IF ServiceThrows(service) THEN Thrown(ServiceMessage(service))
  ELSE IF service = "garbled" THEN Thrown("SyntaxError")
  ELSE IF service = "empty" THEN Returned(Success(JsonObject(Null, "partial")))
  ELSE Returned(Success(JsonObject(Null, "generateVocabAndGrammar")))

HandleTestPaper(payload, service) ==
  IF payload = Null THEN Thrown("TypeError")
  ELSE IF ServiceThrows(service) THEN Thrown(ServiceMessage(service))
  ELSE IF service = "garbled" THEN Thrown("SyntaxError")
  ELSE IF service = "empty" THEN Returned(Success(JsonObject(Null, "partial")))
  ELSE Returned(Success(JsonObject(Null, "generateTestPaper")))

\* JSON.stringify({ audioData }) of an undefined audioData is {}
HandleSpeech(payload, service) ==
  IF payload = Null THEN Thrown("TypeError")
  ELSE IF ServiceThrows(service) THEN Thrown(ServiceMessage(service))
  ELSE IF service = "json" THEN Returned(Success(JsonObject(Null, "generateSpeech")))
  ELSE Returned(Success(JsonObject(Null, "none")))

\* new Response(response.text): the model's text is the body as it is
HandleGrading(payload, service) ==
  IF payload = Null THEN Thrown("TypeError")
  ELSE IF ServiceThrows(service) THEN Thrown(ServiceMessage(service))
  ELSE IF service = "garbled" THEN Returned(Success(TextBody("garbled")))
  ELSE IF service = "empty" THEN Returned(Success(TextBody("")))
  ELSE Returned(Success(JsonObject(Null, "gradeWriting")))

HandleLookup(payload, service) ==
  IF payload = Null THEN Thrown("TypeError")
  ELSE IF ServiceThrows(service) THEN Thrown(ServiceMessage(service))
  ELSE IF service = "garbled" THEN Returned(Success(TextBody("garbled")))
  ELSE IF service = "empty" THEN Returned(Success(TextBody("")))
  ELSE Returned(Success(JsonObject(Null, "lookupWord")))

\* the switch of the request handler: the handler an action tag selects
Dispatch(action) ==
  CASE action = "generateVocabAndGrammar" -> "handleVocab"
    [] action = "generateTestPaper" -> "handleTestPaper"
    [] action = "generateSpeech" -> "handleSpeech"
    [] action = "gradeWriting" -> "handleGrading"
    [] action = "lookupWord" -> "handleLookup"
    [] OTHER -> "none"

\* which handler a request reaches: none unless it is a POST of a JSON object
Reached(req) ==
  IF req.method = "POST" /\ req.body.form = "object" THEN Dispatch(req.body.action)
  ELSE "none"

\* The request handler.  A request body is a text that is no JSON, the JSON
\* null, or a JSON object with an action and perhaps a payload.
GatewayHandler(req, service) ==
  IF req.method # "POST"
  THEN Response(405, "Method Not Allowed", TextBody("Method Not Allowed"))
  ELSE LET h == Reached(req)
           r == IF req.body.form = "text" THEN Thrown("SyntaxError")
                ELSE IF req.body.form = "null" THEN Thrown("TypeError")
                ELSE CASE h = "handleVocab" -> HandleVocab(req.body.payload, service)
                       [] h = "handleTestPaper" -> HandleTestPaper(req.body.payload, service)
                       [] h = "handleSpeech" -> HandleSpeech(req.body.payload, service)
                       [] h = "handleGrading" -> HandleGrading(req.body.payload, service)
                       [] h = "handleLookup" -> HandleLookup(req.body.payload, service)
                       [] OTHER -> Returned(Response(400, "Bad Request",
                                                     TextBody("Unknown action")))
       IN IF r.thrown
          THEN Response(500, "Internal Server Error",
                        JsonObject(Some(r.message), "none"))
          ELSE r.resp

\* how callApi ends: it returns a value or throws an Error, whose message is
\* a text or "API Error: " followed by a text
ApiReturned(value) == [threw |-> FALSE, value |-> Some(value), prefix |-> "", message |-> ""]
ApiThrew(prefix, message) ==
  [threw |-> TRUE, value |-> Null, prefix |-> prefix, message |-> message]

\* a client that hands the error body of a failed request to its caller
CallApiReturnsErrorBody(resp) ==
  IF ~Ok(resp) /\ resp.body.form # "object"
  THEN ApiThrew("API Error: ", resp.statusText)
  ELSE IF resp.body.form = "text" THEN ApiThrew("", "SyntaxError")
  ELSE ApiReturned(resp.body)

\* callApi from the answer on: response.json() rejects on a body that is no
\* JSON; for a response that is not ok the rejection is replaced by {}
CallApi(resp) ==
  IF ~Ok(resp)
  THEN IF resp.body.form = "object" /\ resp.body.error \notin {Null, Some("")}
       THEN ApiThrew("", resp.body.error[1])
       ELSE ApiThrew("API Error: ", resp.statusText)
  ELSE IF resp.body.form = "text" THEN ApiThrew("", "SyntaxError")
  ELSE ApiReturned(resp.body)

\* the request a client function sends through callApi
ClientRequest(action) ==
  [method |-> "POST",
   body |-> [form |-> "object", action |-> action, payload |-> Some("payload")]]

RequestBodies ==
  { [form |-> f, action |-> "", payload |-> Null] : f \in {"text", "null"} }
  \cup { [form |-> "object", action |-> a, payload |-> p] :
           a \in ActionTags \cup {"other"}, p \in {Null, Some("payload")} }

Requests == { [method |-> m, body |-> b] : m \in {"POST", "GET"}, b \in RequestBodies }

NoExchange ==
  [pc |-> "idle", req |-> ClientRequest("lookupWord"), service |-> "json",
   resp |-> Success(TextBody("")), out |-> ApiThrew("", "")]

\* ------------------------------------------------------------- state
VARIABLES
  variant,        \* 1 or 2: which App / TestPaperView code is deployed
  gateway,        \* "api" (callApi client) or "direct" (in-browser client)
  mode, config, practiceData, testPaper, isLoading,
  alertShown,     \* the message of the last alert() of a start handler
  start,          \* the running handleVocabStart / handleTestStart, its locals
  selectedUnits,  \* the unit selections of the mounted Dashboard
  answers, grading, showResult, score, result, writingFeedback,
  sub,            \* the running handleSubmit of the mounted view, its locals
  orphans,        \* handleSubmit runs of views that were unmounted
  isPlaying,      \* variant 1: the isPlaying state of the mounted view
  sources,        \* the started AudioBufferSourceNodes that have not ended
  exchange,       \* a request to the gateway endpoint, its answer, callApi's outcome
  showListeningScript, \* the result view's script toggle (variant 2: showScript)
  practiceView    \* the mounted VocabPracticeView: its tab, its VocabSection

appVars == <<mode, config, practiceData, testPaper, isLoading, alertShown, start>>
viewVars == <<answers, grading, showResult, score, result, writingFeedback, sub>>
audioVars == <<isPlaying, sources>>
vars == <<variant, gateway, selectedUnits, mode, config, practiceData, testPaper, isLoading,
          alertShown, start, answers, grading, showResult, score, result,
          writingFeedback, sub, orphans, isPlaying, sources, exchange,
          showListeningScript, practiceView>>


\* ------------------------------------------------------------- App
NoAlert == "none"
AlertContent == "Failed to generate content."
AlertPaper == "Failed to generate test paper."
AlertAudio == "Audio playback failed."

\* locals of a start handler: pc is the await it is suspended at, units the
\* argument it was called with, paper the local `paper`, before the App data
\* when the handler began, left whether a <nav> control was clicked while it
\* was suspended, out how the last run ended
StartIdle(out) ==
  [pc |-> "idle", units |-> <<>>, paper |-> Null, before |-> Null,
   left |-> FALSE, out |-> out]

StartRunning(pc, units) ==
  [pc |-> pc, units |-> units, paper |-> Null,
   before |-> Some([practiceData |-> practiceData, testPaper |-> testPaper]),
   left |-> FALSE, out |-> "running"]

\* ------------------------------------------------------------- Dashboard
Units == 1..MaxUnit

\* useState([1]): variant 1 keeps one selection per card, variant 2 one
\* selection for both cards (the two fields are then the same list)
DashInit == [vocab |-> <<1>>, test |-> <<1>>]

Includes(seq, u) == \E i \in 1..Len(seq) : seq[i] = u

\* seq.filter(i => i !== u)
RECURSIVE Without(_, _)
Without(seq, u) ==
  IF seq = <<>> THEN <<>>
  ELSE IF Head(seq) = u THEN Without(Tail(seq), u)
  ELSE <<Head(seq)>> \o Without(Tail(seq), u)

\* seq.sort((a, b) => a - b)
RECURSIVE SortAsc(_)
SortAsc(seq) ==
  IF seq = <<>> THEN <<>>
  ELSE LET m == CHOOSE x \in {seq[i] : i \in 1..Len(seq)} :
                  \A i \in 1..Len(seq) : x <= seq[i]
           k == CHOOSE i \in 1..Len(seq) :
                  seq[i] = m /\ \A j \in 1..(i - 1) : seq[j] # m
       IN <<m>> \o SortAsc(SubSeq(seq, 1, k - 1) \o SubSeq(seq, k + 1, Len(seq)))

\* a toggle that appends the unit without sorting and removes the last one
ToggleUnitUnsorted(current, u) ==
  IF Includes(current, u) THEN Without(current, u) ELSE Append(current, u)

\* variant 1: toggleUnit(unit, current, setter)
ToggleUnit1(current, u) ==
  IF Includes(current, u)
  THEN IF Len(current) > 1 THEN Without(current, u) ELSE current
  ELSE SortAsc(Append(current, u))

\* variant 2: toggleUnit(u)
ToggleUnit2(current, u) ==
  IF Includes(current, u) THEN Without(current, u)
  ELSE SortAsc(Append(current, u))

\* what <main> renders
SetupShown == ~isLoading /\ mode = Setup
DashboardShown == ~isLoading /\ mode = Dashboard /\ config # Null
PracticeShown == ~isLoading /\ mode = VocabPractice /\ practiceData # Null
PaperShown == ~isLoading /\ mode = TestPaper /\ testPaper # Null

\* JavaScript truthiness of an optional string
Truthy(opt) == opt # Null /\ opt[1] # <<>>

\* ------------------------------------------------------------- grading
\* locals of handleSubmit: pc is where the run stands, (si, qi) the section
\* and question the loops are at, answers the `answers` the click closed
\* over; issued (the gradeWriting calls made, in order), failed (the
\* questions whose grading request failed), awarded (what was added to
\* totalScore for each question) and edits record the run
SubIdle ==
  [pc |-> "idle", si |-> 1, qi |-> 1, totalScore |-> 0, maxTotalScore |-> 0,
   sectionScore |-> 0, sectionScores |-> <<>>, fb |-> <<>>, answers |-> <<>>,
   issued |-> <<>>, failed |-> {}, awarded |-> <<>>, edits |-> 0]

\* answers[q.id]
Get(ans, id) == IF id \in DOMAIN ans THEN Some(ans[id]) ELSE Null

CurQ(p, st) == p.sections[st.si].questions[st.qi]

Advance(st) == [st EXCEPT !.qi = @ + 1]

\* variant 1: q.correctAnswer && answers[q.id]?.trim().toLowerCase()
\*            === q.correctAnswer.trim().toLowerCase()
ObjectiveCorrect1(q, ans) ==
  /\ Truthy(q.correctAnswer)
  /\ q.id \in DOMAIN ans
  /\ ToLowerCase(Trim(ans[q.id])) = ToLowerCase(Trim(q.correctAnswer[1]))

\* variant 2: userAns === q.correctAnswer
ObjectiveCorrect2(q, ans) == Get(ans, q.id) = q.correctAnswer

\* variant 1: the essay is graded only if answers[q.id] || "" is non-empty
EssaySent1(q, ans) == Truthy(Get(ans, q.id))

AwardObjective(v, q, st) ==
  IF v = 1
  THEN IF ObjectiveCorrect1(q, st.answers)
       THEN [st EXCEPT !.totalScore = @ + q.maxScore,
                       !.awarded = (q.id :> q.maxScore) @@ @]
       ELSE [st EXCEPT !.awarded = (q.id :> 0) @@ @]
  ELSE IF ObjectiveCorrect2(q, st.answers)
       THEN [st EXCEPT !.sectionScore = @ + q.maxScore,
                       !.totalScore = @ + q.maxScore,
                       !.awarded = (q.id :> q.maxScore) @@ @]
       ELSE [st EXCEPT !.awarded = (q.id :> 0) @@ @]

\* a maximum that counts only the questions the user answered
AddMaxIfAnswered(q, st) ==
  [st EXCEPT !.maxTotalScore = IF q.id \in DOMAIN st.answers
                               THEN @ + q.maxScore ELSE @,
             !.awarded = (q.id :> 0) @@ @]

\* maxTotalScore += q.maxScore, first statement of the inner loop
AddMax(q, st) ==
  [st EXCEPT !.maxTotalScore = @ + q.maxScore, !.awarded = (q.id :> 0) @@ @]

\* the two nested for-loops of handleSubmit, run from the position in st up
\* to the next await on gradeWriting (pc = "await") or to the end of the paper
\* (pc = "end")
RECURSIVE RunLoop(_, _, _)
RunLoop(v, p, st) ==
  IF st.si > Len(p.sections) THEN [st EXCEPT !.pc = "end"]
  ELSE IF st.qi > Len(p.sections[st.si].questions)
  THEN RunLoop(v, p,
         [st EXCEPT !.si = @ + 1, !.qi = 1, !.sectionScore = 0,
                    !.sectionScores =
                       IF v = 2
                       THEN (p.sections[st.si].id :> st.sectionScore) @@ @
                       ELSE @])
  ELSE LET q == CurQ(p, st)
           st1 == AddMax(q, st)
       IN IF q.type = "writing"
          THEN IF v = 2 \/ EssaySent1(q, st.answers)
               THEN [st1 EXCEPT !.pc = "await", !.issued = Append(@, q.id)]
               ELSE RunLoop(v, p, Advance(st1))
          ELSE RunLoop(v, p, Advance(AwardObjective(v, q, st1)))

\* the questions a run suspended at st is still going to call gradeWriting
\* for, the one in flight first, if every call returns
RECURSIVE CallsFrom(_, _, _)
CallsFrom(v, p, st) ==
  IF st.pc # "await" THEN <<>>
  ELSE <<CurQ(p, st).id>> \o CallsFrom(v, p, RunLoop(v, p, Advance(st)))

\* a run that adds the essay score to the total but not to its section
AddFeedbackTotalOnly(v, q, f, st) ==
  [st EXCEPT !.fb = (q.id :> f) @@ @,
             !.awarded = (q.id :> f.score) @@ @,
             !.totalScore = @ + f.score]

\* a run that limits the essay score to 0..maxScore
AddFeedbackClamped(v, q, f, st) ==
  LET c == IF f.score > q.maxScore THEN q.maxScore
           ELSE IF f.score < 0 THEN 0 ELSE f.score
  IN [st EXCEPT !.fb = (q.id :> f) @@ @,
                !.awarded = (q.id :> c) @@ @,
                !.totalScore = @ + c,
                !.sectionScore = IF v = 2 THEN @ + c ELSE @]

\* feedback.score added after a successful gradeWriting
AddFeedback(v, q, f, st) ==
  [st EXCEPT !.fb = (q.id :> f) @@ @,
             !.awarded = (q.id :> f.score) @@ @,
             !.totalScore = @ + f.score,
             !.sectionScore = IF v = 2 THEN @ + f.score ELSE @]


\* ------------------------------------------------------------- VocabPracticeView
\* no VocabPracticeView is mounted
NoPracticeView ==
  [mounted |-> FALSE, activeTab |-> "vocab", isReview |-> FALSE, userInputs |-> <<>>,
   mistakes |-> <<>>, activeItems |-> <<>>, rendered |-> <<>>]

\* useState initial values of VocabPracticeView and of its VocabSection
MountPractice(items) ==
  [NoPracticeView EXCEPT !.mounted = TRUE, !.activeItems = items]

\* ------------------------------------------------------------- TestPaperView
\* useState initial values of a freshly mounted TestPaperView
ViewInit ==
  /\ answers = <<>>
  /\ grading = FALSE
  /\ showResult = FALSE
  /\ score = [total |-> 0, max |-> 0]
  /\ result = Null
  /\ writingFeedback = <<>>
  /\ sub = SubIdle
  /\ isPlaying = FALSE
  /\ showListeningScript = FALSE

\* the sources started by a view that is still mounted
Mounted(srcs) == {i \in 1..Len(srcs) : srcs[i].mounted}

\* The view is unmounted: its state is dropped (the next mount starts from the
\* useState initial values); a handleSubmit suspended on gradeWriting keeps
\* running, its later setState calls reaching no mounted component.  Nothing
\* stops a source the view started: it plays to its end.
UnmountView ==
  /\ (sub.pc = "await" \/ Mounted(sources) # {})
       => Len(orphans) + Len(sources) + (IF sub.pc = "await" THEN 1 ELSE 0) <= MaxOrphans
  /\ isPlaying' = FALSE
  /\ showListeningScript' = FALSE
  /\ sources' = [i \in 1..Len(sources) |-> [sources[i] EXCEPT !.mounted = FALSE]]
  /\ answers' = <<>>
  /\ grading' = FALSE
  /\ showResult' = FALSE
  /\ score' = [total |-> 0, max |-> 0]
  /\ result' = Null
  /\ writingFeedback' = <<>>
  /\ sub' = SubIdle
  /\ orphans' = IF sub.pc = "await"
                THEN Append(orphans, CallsFrom(variant, testPaper[1], sub))
                ELSE orphans

\* setMode(AppMode.Dashboard); a start handler suspended at an await is not
\* told, start.left only records that the click happened
GoDashboard ==
  /\ mode' = Dashboard
  /\ IF PaperShown THEN UnmountView ELSE UNCHANGED <<viewVars, orphans, audioVars, showListeningScript>>
  /\ start' = IF start.pc # "idle" THEN [start EXCEPT !.left = TRUE] ELSE start
  /\ practiceView' = NoPracticeView
  /\ UNCHANGED <<variant, gateway, exchange, selectedUnits, config, practiceData,
                 testPaper, isLoading, alertShown>>

\* ------------------------------------------------------------- App actions
HandleConfigSave(newConfig) ==
  /\ SetupShown
  /\ config' = Some(newConfig)
  /\ mode' = Dashboard
  /\ UNCHANGED <<variant, gateway, exchange, practiceView, showListeningScript, audioVars, selectedUnits, practiceData, testPaper, isLoading, alertShown,
                 start, viewVars, orphans>>

\* Dashboard: onChangeConfig
ChangeConfig ==
  /\ DashboardShown
  /\ mode' = Setup
  /\ selectedUnits' = DashInit
  /\ UNCHANGED <<variant, gateway, exchange, practiceView, showListeningScript, audioVars, config, practiceData, testPaper, isLoading,
                 alertShown, start, viewVars, orphans>>

\* a logo without the config guard
NavLogoUnguarded == GoDashboard

\* the logo in <nav>: config && setMode(Dashboard)
NavLogo ==
  /\ config # Null
  /\ GoDashboard

\* the Dashboard button in <nav>, rendered when config && mode !== Setup
NavDashboard ==
  /\ config # Null
  /\ mode # Setup
  /\ GoDashboard

\* VocabPracticeView: onBack
BackFromPractice ==
  /\ PracticeShown
  /\ GoDashboard

\* TestPaperView / TestResultView: Exit, Back, Back to Dashboard
BackFromTest ==
  /\ PaperShown
  /\ GoDashboard

\* the selection-changing clicks of the Dashboard
ToggleUnit(card, u) ==
  /\ DashboardShown
  /\ selectedUnits' =
       IF variant = 1
       THEN [selectedUnits EXCEPT ![card] = ToggleUnit1(@, u)]
       ELSE [vocab |-> ToggleUnit2(selectedUnits.vocab, u),
             test |-> ToggleUnit2(selectedUnits.vocab, u)]
  /\ UNCHANGED <<variant, gateway, exchange, practiceView, showListeningScript, audioVars, appVars, viewVars, orphans>>

\* start buttons that pass every click on
StartAlwaysClickable(units) == TRUE

\* the start button of a card passes its click on to the handler; variant 2:
\* selectedUnits.length > 0 && onStart...(selectedUnits), disabled otherwise
StartClickable(units) == variant = 2 => Len(units) > 0

\* handleVocabStart up to its await; the spinner replaces the Dashboard
HandleVocabStart ==
  /\ DashboardShown
  /\ StartClickable(selectedUnits.vocab)
  /\ isLoading' = TRUE
  /\ start' = StartRunning("vocab", selectedUnits.vocab)
  /\ alertShown' = NoAlert
  /\ selectedUnits' = DashInit
  /\ UNCHANGED <<variant, gateway, exchange, practiceView, showListeningScript, audioVars, mode, config, practiceData, testPaper,
                 viewVars, orphans>>

\* generateVocabAndGrammar returned data: try block, then finally
VocabStartOk(data) ==
  /\ start.pc = "vocab"
  /\ practiceData' = Some(data)
  /\ mode' = VocabPractice
  /\ isLoading' = FALSE
  /\ start' = StartIdle("vocabOk")
  /\ practiceView' = MountPractice(data.vocab)
  /\ UNCHANGED <<variant, gateway, exchange, showListeningScript, audioVars, selectedUnits, config, testPaper, alertShown, viewVars, orphans>>

\* a catch block that also drops the data of the previous practice session
VocabStartErrDropsData ==
  /\ start.pc = "vocab"
  /\ alertShown' = AlertContent
  /\ isLoading' = FALSE
  /\ practiceData' = Null
  /\ start' = StartIdle("vocabFailed")
  /\ UNCHANGED <<variant, gateway, exchange, practiceView, showListeningScript, audioVars, selectedUnits, mode, config, testPaper, viewVars, orphans>>

\* generateVocabAndGrammar threw: catch block, then finally
VocabStartErr ==
  /\ start.pc = "vocab"
  /\ alertShown' = AlertContent
  /\ isLoading' = FALSE
  /\ start' = StartIdle("vocabFailed")
  /\ UNCHANGED <<variant, gateway, exchange, practiceView, showListeningScript, audioVars, selectedUnits, mode, config, practiceData, testPaper,
                 viewVars, orphans>>

\* handleTestStart up to its first await
HandleTestStart ==
  /\ DashboardShown
  /\ StartClickable(selectedUnits.test)
  /\ isLoading' = TRUE
  /\ start' = StartRunning("paper", selectedUnits.test)
  /\ alertShown' = NoAlert
  /\ selectedUnits' = DashInit
  /\ UNCHANGED <<variant, gateway, exchange, practiceView, showListeningScript, audioVars, mode, config, practiceData, testPaper,
                 viewVars, orphans>>

\* setTestPaper(paper); setMode(TestPaper); finally setIsLoading(false)
StorePaper(paper, out) ==
  /\ testPaper' = Some(paper)
  /\ mode' = TestPaper
  /\ isLoading' = FALSE
  /\ start' = StartIdle(out)
  /\ UNCHANGED <<variant, gateway, exchange, practiceView, showListeningScript, audioVars, selectedUnits, config, practiceData, alertShown, viewVars,
                 orphans>>

\* a handler that stores the paper and changes the mode before the audio
TestPaperOkStoresEarly(paper) ==
  /\ start.pc = "paper"
  /\ IF Truthy(paper.listeningScript)
     THEN /\ start' = [start EXCEPT !.pc = "speech", !.paper = Some(paper)]
          /\ testPaper' = Some(paper)
          /\ mode' = TestPaper
          /\ UNCHANGED <<variant, gateway, exchange, practiceView, showListeningScript, audioVars, selectedUnits, config, practiceData, isLoading,
                         alertShown, viewVars, orphans>>
     ELSE StorePaper(paper, "noScript")

\* a handler that asks for speech whatever the script is
TestPaperOkAlwaysSpeaks(paper) ==
  /\ start.pc = "paper"
  /\ start' = [start EXCEPT !.pc = "speech", !.paper = Some(paper)]
  /\ UNCHANGED <<variant, gateway, exchange, practiceView, showListeningScript, audioVars, selectedUnits,
                 mode, config, practiceData, testPaper, isLoading, alertShown, viewVars,
                 orphans>>

\* generateTestPaper returned: with a listening script generateSpeech is
\* awaited next, without one the paper is stored at once
TestPaperOk(paper) ==
  /\ start.pc = "paper"
  /\ IF Truthy(paper.listeningScript)
     THEN /\ start' = [start EXCEPT !.pc = "speech", !.paper = Some(paper)]
          /\ UNCHANGED <<variant, gateway, exchange, practiceView, showListeningScript, audioVars, selectedUnits, mode, config, practiceData, testPaper,
                         isLoading, alertShown, viewVars, orphans>>
     ELSE StorePaper(paper, "noScript")

\* an outer catch that leaves the loading flag set
TestPaperErrKeepsLoading ==
  /\ start.pc = "paper"
  /\ alertShown' = AlertPaper
  /\ start' = StartIdle("paperFailed")
  /\ UNCHANGED <<variant, gateway, exchange, practiceView, showListeningScript, audioVars, selectedUnits, mode, config, practiceData, testPaper,
                 isLoading, viewVars, orphans>>

\* generateTestPaper threw: outer catch, then finally
TestPaperErr ==
  /\ start.pc = "paper"
  /\ alertShown' = AlertPaper
  /\ isLoading' = FALSE
  /\ start' = StartIdle("paperFailed")
  /\ UNCHANGED <<variant, gateway, exchange, practiceView, showListeningScript, audioVars, selectedUnits, mode, config, practiceData, testPaper,
                 viewVars, orphans>>

\* generateSpeech returned audio: paper.listeningAudioBase64 = audioBase64
SpeechOk(audio) ==
  /\ start.pc = "speech"
  /\ StorePaper([start.paper[1] EXCEPT !.listeningAudioBase64 = Some(audio)],
                "speechOk")

\* The service answered without audio data.  The callApi client returns
\* result.audioData = undefined, which is assigned; the direct client throws
\* "No audio data returned", which the inner catch swallows.
SpeechNoData ==
  /\ start.pc = "speech"
  /\ StorePaper([start.paper[1] EXCEPT !.listeningAudioBase64 = Null],
                "speechNoData")

\* a handler without the inner try: the speech failure reaches the outer catch
SpeechErrFatal ==
  /\ start.pc = "speech"
  /\ alertShown' = AlertPaper
  /\ isLoading' = FALSE
  /\ start' = StartIdle("speechFailed")
  /\ UNCHANGED <<variant, gateway, exchange, practiceView, showListeningScript, audioVars, selectedUnits, mode, config, practiceData, testPaper,
                 viewVars, orphans>>

\* generateSpeech threw: inner catch, the paper is stored as generated
SpeechErr ==
  /\ start.pc = "speech"
  /\ StorePaper(start.paper[1], "speechFailed")


\* ------------------------------------------------------------- view actions
\* the values the rendered input of question q can put into answers[q.id]:
\* variant 1 renders radio buttons (value = the option) for multiple_choice,
\* a text input for fill_in_blank and boolean, a textarea for writing;
\* variant 2 renders radio buttons (value = opt.charAt(0)) and the textarea
RadioValue(v, opt) == IF v = 1 THEN opt ELSE CharAt0(opt)

InputValues(v, q) ==
  IF q.type = "multiple_choice"
  THEN IF q.options = Null THEN {}
       ELSE { RadioValue(v, q.options[1][i]) : i \in 1..Len(q.options[1]) }
  ELSE IF q.type = "writing" THEN Essays
  ELSE IF v = 1 THEN Strs(MaxLen) ELSE {}

Questions(p) ==
  UNION { { p.sections[i].questions[j] : j \in 1..Len(p.sections[i].questions) } :
            i \in 1..Len(p.sections) }

\* inputs that are still rendered and editable once the result is shown
HandleAnswerAfterResult(q, val) ==
  /\ PaperShown
  /\ q \in Questions(testPaper[1])
  /\ val \in InputValues(variant, q)
  /\ sub.pc # "idle" => sub.edits < MaxGradingEdits
  /\ answers' = (q.id :> val) @@ answers
  /\ sub' = IF sub.pc # "idle" THEN [sub EXCEPT !.edits = @ + 1] ELSE sub
  /\ UNCHANGED <<variant, gateway, exchange, practiceView, showListeningScript, audioVars, selectedUnits,
                 appVars, grading, showResult, score, result, writingFeedback, orphans>>

\* handleAnswer / the onChange handlers; the inputs stay enabled while grading
HandleAnswer(q, val) ==
  /\ PaperShown
  /\ ~showResult
  /\ q \in Questions(testPaper[1])
  /\ val \in InputValues(variant, q)
  /\ sub.pc # "idle" => sub.edits < MaxGradingEdits
  /\ answers' = (q.id :> val) @@ answers
  /\ sub' = IF sub.pc # "idle" THEN [sub EXCEPT !.edits = @ + 1] ELSE sub
  /\ UNCHANGED <<variant, gateway, exchange, practiceView, showListeningScript, audioVars, selectedUnits, appVars, grading, showResult, score, result,
                 writingFeedback, orphans>>

\* the end of handleSubmit: variant 1 setScore, setWritingFeedback,
\* setShowResult(true), setGrading(false); variant 2 setWritingFeedback,
\* setResult, setSubmitted(true), setIsGrading(false)
Finish(st) ==
  /\ writingFeedback' = st.fb
  /\ showResult' = TRUE
  /\ grading' = FALSE
  /\ sub' = [st EXCEPT !.pc = "done"]
  /\ IF variant = 1
     THEN /\ score' = [total |-> st.totalScore, max |-> st.maxTotalScore]
          /\ UNCHANGED result
     ELSE /\ result' = Some([paperId |-> testPaper[1].id,
                             totalScore |-> st.totalScore,
                             maxTotalScore |-> st.maxTotalScore,
                             sectionScores |-> st.sectionScores,
                             writingFeedback |-> st.fb,
                             answers |-> st.answers])
          /\ UNCHANGED score

\* run the loop on from st; suspend at the next gradeWriting or finish
Continue(st) ==
  LET next == RunLoop(variant, testPaper[1], st)
  IN IF next.pc = "end"
     THEN Finish(next)
     ELSE /\ sub' = next
          /\ grading' = TRUE
          /\ UNCHANGED <<showResult, score, result, writingFeedback>>

\* a submit button that stays clickable while grading
HandleSubmitWhileGrading ==
  /\ PaperShown
  /\ ~showResult
  /\ Continue([SubIdle EXCEPT !.pc = "run", !.answers = answers])
  /\ UNCHANGED <<variant, gateway, exchange, practiceView, showListeningScript, audioVars, selectedUnits, appVars, answers, orphans>>

\* handleSubmit from the click (variant 2: confirm() accepted) to its first
\* await, or to its end when no essay is sent to the grader
HandleSubmit ==
  /\ PaperShown
  /\ ~showResult
  /\ ~grading
  /\ Continue([SubIdle EXCEPT !.pc = "run", !.answers = answers])
  /\ UNCHANGED <<variant, gateway, exchange, practiceView, showListeningScript, audioVars, selectedUnits, appVars, answers, orphans>>

\* a handler that asks the grader again for the question just graded
GradeOkRetries(f) ==
  /\ sub.pc = "await"
  /\ Continue(AddFeedback(variant, CurQ(testPaper[1], sub), f, sub))
  /\ UNCHANGED <<variant, gateway, exchange, practiceView, showListeningScript, audioVars, selectedUnits, appVars, answers, orphans>>

\* gradeWriting returned the grader's feedback
GradeOk(f) ==
  /\ sub.pc = "await"
  /\ Continue(Advance(AddFeedback(variant, CurQ(testPaper[1], sub), f, sub)))
  /\ UNCHANGED <<variant, gateway, exchange, practiceView, showListeningScript, audioVars, selectedUnits, appVars, answers, orphans>>

\* The grading request failed in the direct client: its own catch returns the
\* "Could not grade automatically." record, so the caller sees a result.
GradeFallback ==
  /\ sub.pc = "await"
  /\ gateway = "direct"
  /\ LET q == CurQ(testPaper[1], sub)
     IN Continue(Advance(AddFeedback(variant, q, CouldNotGrade,
                                     [sub EXCEPT !.failed = @ \cup {q.id}])))
  /\ UNCHANGED <<variant, gateway, exchange, practiceView, showListeningScript, audioVars, selectedUnits, appVars, answers, orphans>>

\* The grading request failed in the callApi client: gradeWriting throws.
\* Variant 1 catches inside the loop and goes on; variant 2 has no try, the
\* rejection ends handleSubmit before setResult and setIsGrading(false).
GradeErr ==
  /\ sub.pc = "await"
  /\ gateway = "api"
  /\ LET q == CurQ(testPaper[1], sub)
         st == [sub EXCEPT !.failed = @ \cup {q.id}]
     IN IF variant = 1
        THEN Continue(Advance(st))
        ELSE /\ sub' = [st EXCEPT !.pc = "threw"]
             /\ UNCHANGED <<grading, showResult, score, result, writingFeedback>>
  /\ UNCHANGED <<variant, gateway, exchange, practiceView, showListeningScript, audioVars, selectedUnits, appVars, answers, orphans>>

\* a call of an unmounted view's handleSubmit returned (or, in variant 1,
\* failed and was caught): the run goes on to its next call or ends
OrphanReturns(i) ==
  /\ i \in 1..Len(orphans)
  /\ orphans' = IF Len(orphans[i]) > 1
                THEN [orphans EXCEPT ![i] = Tail(@)]
                ELSE SubSeq(orphans, 1, i - 1) \o SubSeq(orphans, i + 1, Len(orphans))
  /\ UNCHANGED <<variant, gateway, exchange, practiceView, showListeningScript, audioVars, selectedUnits, appVars, viewVars>>

\* variant 2 over callApi: the failed call ends the unmounted view's run
OrphanThrows(i) ==
  /\ i \in 1..Len(orphans)
  /\ variant = 2
  /\ gateway = "api"
  /\ orphans' = SubSeq(orphans, 1, i - 1) \o SubSeq(orphans, i + 1, Len(orphans))
  /\ UNCHANGED <<variant, gateway, exchange, practiceView, showListeningScript, audioVars, selectedUnits, appVars, viewVars>>

\* the Show Script / Hide Script button of the result view (variant 1: the
\* result branch of TestPaperView; variant 2: TestResultView), rendered for
\* a paper with a listening script
ToggleListeningScript ==
  /\ PaperShown
  /\ showResult
  /\ Truthy(testPaper[1].listeningScript)
  /\ showListeningScript' = ~showListeningScript
  /\ UNCHANGED <<variant, gateway, exchange, practiceView, audioVars, selectedUnits, appVars, viewVars,
                 orphans>>

\* ------------------------------------------------------------- playback
\* the play button of variant 1 is rendered, for a truthy payload, enabled
PlayClickable ==
  /\ variant = 1
  /\ PaperShown
  /\ ~showResult
  /\ Truthy(testPaper[1].listeningAudioBase64)
  /\ ~isPlaying

\* audioCtx.createBuffer(1, length, 24000) throws for a length of 0
BufferCreated(d) == d # Null /\ d[1].buf # <<>>

\* a handler whose catch leaves the flag set
PlayAudioFailureKeepsFlag ==
  /\ PlayClickable
  /\ LET d == DecodeAudio(testPaper[1].listeningAudioBase64[1])
     IN IF BufferCreated(d)
        THEN /\ isPlaying' = TRUE
             /\ sources' = Append(sources, [bytes |-> d[1].bytes, buf |-> d[1].buf,
                                            mounted |-> TRUE])
             /\ UNCHANGED alertShown
        ELSE /\ isPlaying' = TRUE
             /\ alertShown' = AlertAudio
             /\ UNCHANGED sources
  /\ UNCHANGED <<variant, gateway, exchange, practiceView, showListeningScript, selectedUnits, mode, config, practiceData, testPaper,
                 isLoading, start, viewVars, orphans>>

\* playAudio (variant 1; it has no await, the click runs it to its end):
\* setIsPlaying(true), decode, source.start(); a throw on the way is caught:
\* setIsPlaying(false), alert
PlayAudio ==
  /\ PlayClickable
  /\ LET d == DecodeAudio(testPaper[1].listeningAudioBase64[1])
     IN IF BufferCreated(d)
        THEN /\ isPlaying' = TRUE
             /\ sources' = Append(sources, [bytes |-> d[1].bytes, buf |-> d[1].buf,
                                            mounted |-> TRUE])
             /\ UNCHANGED alertShown
        ELSE /\ isPlaying' = FALSE
             /\ alertShown' = AlertAudio
             /\ UNCHANGED sources
  /\ UNCHANGED <<variant, gateway, exchange, practiceView, showListeningScript, selectedUnits, mode, config, practiceData, testPaper,
                 isLoading, start, viewVars, orphans>>

\* source.onended: the buffer was played to its end; setIsPlaying(false)
\* reaches the view only while that view is mounted
PlaybackEnds(i) ==
  /\ i \in 1..Len(sources)
  /\ sources' = SubSeq(sources, 1, i - 1) \o SubSeq(sources, i + 1, Len(sources))
  /\ isPlaying' = IF sources[i].mounted THEN FALSE ELSE isPlaying
  /\ UNCHANGED <<variant, gateway, exchange, practiceView, showListeningScript, selectedUnits, appVars, viewVars, orphans>>

\* ------------------------------------------------------------- whole runs
\* how one gradeWriting request ends: the grader's score, or a failed request
CallOutcomes ==
  {[ok |-> TRUE, score |-> sc] : sc \in GradeScores} \cup {[ok |-> FALSE, score |-> 0]}

\* handleSubmit resumed at the await it is suspended at, up to its next await,
\* its end, or the rejection that ends it (variant 2 over callApi)
AfterCall(v, g, p, st, o) ==
  LET q == CurQ(p, st)
      st1 == [st EXCEPT !.failed = @ \cup {q.id}]
  IN IF o.ok
     THEN RunLoop(v, p, Advance(AddFeedback(v, q, Graded(o.score), st)))
     ELSE IF g = "direct"
     THEN RunLoop(v, p, Advance(AddFeedback(v, q, CouldNotGrade, st1)))
     ELSE IF v = 1 THEN RunLoop(v, p, Advance(st1))
     ELSE [st1 EXCEPT !.pc = "threw"]

\* the run from st on, its calls ending as os says, one after the other
RECURSIVE RunWith(_, _, _, _, _)
RunWith(v, g, p, st, os) ==
  IF st.pc # "await" \/ os = <<>> THEN st
  ELSE RunWith(v, g, p, AfterCall(v, g, p, st, Head(os)), Tail(os))

\* handleSubmit on paper p with the answers ans
FullRun(v, g, p, ans, os) ==
  RunWith(v, g, p, RunLoop(v, p, [SubIdle EXCEPT !.pc = "run", !.answers = ans]), os)

\* ------------------------------------------------------------- specification
Init ==
  /\ variant \in {1, 2}
  /\ gateway \in {"api", "direct"}
  /\ mode = Setup
  /\ config = Null
  /\ practiceData = Null
  /\ testPaper = Null
  /\ isLoading = FALSE
  /\ alertShown = NoAlert
  /\ start = StartIdle("none")
  /\ selectedUnits = DashInit
  /\ ViewInit
  /\ orphans = <<>>
  /\ sources = <<>>
  /\ exchange = NoExchange
  /\ practiceView = NoPracticeView

Next ==
  \/ \E c \in Configs : HandleConfigSave(c)
  \/ ChangeConfig
  \/ NavLogo
  \/ NavDashboard
  \/ BackFromPractice
  \/ BackFromTest
  \/ \E card \in {"vocab", "test"} : \E u \in Units : ToggleUnit(card, u)
  \/ HandleVocabStart
  \/ \E d \in PracticeResults : VocabStartOk(d)
  \/ VocabStartErr
  \/ HandleTestStart
  \/ \E p \in TestPapers : TestPaperOk(p)
  \/ TestPaperErr
  \/ \E a \in AudioPayloads : SpeechOk(a)
  \/ SpeechNoData
  \/ SpeechErr
  \/ \E p \in TestPapers : \E q \in Questions(p) :
       \E val \in InputValues(variant, q) : HandleAnswer(q, val)
  \/ HandleSubmit
  \/ \E s \in GradeScores : GradeOk(Graded(s))
  \/ GradeFallback
  \/ GradeErr
  \/ \E i \in 1..MaxOrphans : OrphanReturns(i)
  \/ \E i \in 1..MaxOrphans : OrphanThrows(i)
  \/ PlayAudio
  \/ \E i \in 1..(MaxOrphans + 1) : PlaybackEnds(i)
  \/ ToggleListeningScript

Spec == Init /\ [][Next]_vars


\* every outstanding gradeWriting call of the mounted view returns or fails
\* (fetch settles its promise; the await then resumes handleSubmit)
GradeCompletes ==
  \/ \E sc \in GradeScores : GradeOk(Graded(sc))
  \/ GradeFallback
  \/ GradeErr

FairSpec == Spec /\ WF_vars(GradeCompletes)

\* ------------------------------------------------------------- decoding
\* The decode steps of playAudio on many payloads: variant 1 shows the
\* listening paper, whose payload is any of DecodeInputs; the view's handlers
\* are the actions.
ByteValues == {0, 1, 127, 128, 255}
ByteSeqs == UNION { [1..n -> ByteValues] : n \in 0..MaxBytes }

\* texts atob rejects: a character outside the alphabet, a length of 4k+1,
\* padding inside the text, padding only
MalformedTexts ==
  { <<NotBase64>>, <<0>>, <<0, 0, NotBase64, 0>>, <<0, 0, Pad, 0>>,
    <<0, 0, 0, 0, 0>>, <<Pad, Pad, Pad, Pad>> }

DecodeInputs == { Base64Encode(b) : b \in ByteSeqs } \cup MalformedTexts

DecodeInit ==
  /\ variant = 1
  /\ gateway \in {"api", "direct"}
  /\ mode = TestPaper
  /\ config = Some(CHOOSE c \in Configs : TRUE)
  /\ practiceData = Null
  /\ \E text \in DecodeInputs :
       testPaper = Some([PaperListening EXCEPT !.listeningAudioBase64 = Some(text)])
  /\ isLoading = FALSE
  /\ alertShown = NoAlert
  /\ start = StartIdle("speechOk")
  /\ selectedUnits = DashInit
  /\ ViewInit
  /\ orphans = <<>>
  /\ sources = <<>>
  /\ exchange = NoExchange
  /\ practiceView = NoPracticeView

DecodeNext ==
  \/ PlayAudio
  \/ \E i \in 1..(MaxOrphans + 1) : PlaybackEnds(i)
  \/ \E q \in Questions(PaperListening) :
       \E val \in InputValues(variant, q) : HandleAnswer(q, val)
  \/ HandleSubmit

DecodeSpec == DecodeInit /\ [][DecodeNext]_vars

\* ------------------------------------------------------------- properties
WithoutAudio(p) == [p EXCEPT !.listeningAudioBase64 = Null]

\* the paper the view shows
Paper == testPaper[1]

\* C1: VocabPractice mode holds a complete generateVocabAndGrammar result,
\* TestPaper mode holds a complete generateTestPaper result whose audio is
\* there exactly when generateSpeech delivered it, and while the speech call
\* is pending the paper is not stored yet and the mode is still Dashboard.
C1_NoHalfBuiltSession ==
  /\ mode = VocabPractice =>
       practiceData # Null /\ practiceData[1] \in PracticeResults
  /\ mode = TestPaper =>
       /\ testPaper # Null
       /\ WithoutAudio(Paper) \in TestPapers
       /\ start.pc = "idle"
       /\ Paper.listeningAudioBase64 # Null <=> start.out = "speechOk"
  /\ start.pc \in {"vocab", "paper", "speech"} =>
       /\ mode = Dashboard
       /\ practiceData = start.before[1].practiceData
       /\ testPaper = start.before[1].testPaper

C1_Witness ==
  mode = TestPaper /\ testPaper # Null /\ Paper.listeningAudioBase64 # Null

\* C2: when generateVocabAndGrammar fails, handleVocabStart ends with mode
\* Dashboard, practiceData as it was before the call, the alert shown and
\* isLoading false.
C2_VocabFailureKeepsState ==
  [][(start.pc = "vocab" /\ start'.out = "vocabFailed") =>
       /\ mode' = Dashboard
       /\ practiceData' = start.before[1].practiceData
       /\ alertShown' = AlertContent
       /\ ~isLoading'
       /\ start'.pc = "idle"]_vars

C2_Witness ==
  /\ start.out = "vocabFailed"
  /\ alertShown = AlertContent
  /\ practiceData # Null
  /\ mode = Dashboard
  /\ ~isLoading

\* C3: when generateTestPaper fails, handleTestStart ends without having
\* issued generateSpeech, with mode Dashboard, testPaper as it was before the
\* call and isLoading false.
C3_PaperFailureKeepsState ==
  [][(start.pc = "paper" /\ start'.out = "paperFailed") =>
       /\ start'.pc = "idle"
       /\ mode' = Dashboard
       /\ testPaper' = start.before[1].testPaper
       /\ ~isLoading']_vars

C3_Witness ==
  /\ start.out = "paperFailed"
  /\ testPaper # Null
  /\ mode = Dashboard
  /\ ~isLoading

SpeechGivenUp == start.out \in {"speechFailed", "speechNoData"}

\* C4: when generateSpeech fails or delivers no audio after a generated
\* paper, the handler stores the paper without audio, sets mode TestPaper and
\* shows no alert; in the view of such a paper every input the view renders
\* accepts an answer (variant 1 renders one for every question) and the test
\* can be submitted.
C4_AudioFailureNotFatal ==
  /\ [][(start.pc = "speech" /\ start'.out \in {"speechFailed", "speechNoData"}) =>
          /\ testPaper' = Some(WithoutAudio(start.paper[1]))
          /\ mode' = TestPaper
          /\ ~isLoading'
          /\ alertShown' = NoAlert]_vars
  /\ [](SpeechGivenUp /\ PaperShown /\ ~showResult /\ sub.pc = "idle" =>
          /\ ENABLED HandleSubmit
          /\ \A q \in Questions(Paper) :
               /\ variant = 1 => InputValues(variant, q) # {}
               /\ \A val \in InputValues(variant, q) : ENABLED HandleAnswer(q, val))

C4_Witness ==
  /\ SpeechGivenUp
  /\ PaperShown
  /\ showResult
  /\ DOMAIN answers = {q.id : q \in Questions(Paper)}


Range(seq) == {seq[i] : i \in 1..Len(seq)}

ObjectiveQuestions(p) == {q \in Questions(p) : q.type \in ObjectiveTypes}
WritingQuestions(p) == {q \in Questions(p) : q.type = "writing"}

\* the answer equals correctAnswer after trimming and lower-casing both
EqualTrimmedIgnoringCase(q, ans) ==
  /\ q.correctAnswer # Null
  /\ q.id \in DOMAIN ans
  /\ ToLowerCase(Trim(ans[q.id])) = ToLowerCase(Trim(q.correctAnswer[1]))

\* no entry, or an empty entry
Unanswered(q, ans) == ~Truthy(Get(ans, q.id))

\* C5: a finished handleSubmit has awarded each objective question that
\* carries a correctAnswer its maxScore if the answer equals correctAnswer
\* after trimming and ignoring case, and 0 otherwise.
C5_ObjectiveAwardIsTrimmedCaseInsensitive ==
  sub.pc = "done" =>
    \A q \in ObjectiveQuestions(Paper) :
      q.correctAnswer # Null =>
        sub.awarded[q.id] =
          IF EqualTrimmedIgnoringCase(q, sub.answers) THEN q.maxScore ELSE 0

\* C6: a finished handleSubmit has awarded 0 to every objective question
\* without an answer or with an empty answer, also when the question has no
\* correctAnswer.
C6_UnansweredObjectiveScoresZero ==
  sub.pc = "done" =>
    \A q \in ObjectiveQuestions(Paper) :
      Unanswered(q, sub.answers) => sub.awarded[q.id] = 0

RECURSIVE SumMaxScore(_)
SumMaxScore(qs) ==
  IF qs = <<>> THEN 0 ELSE Head(qs).maxScore + SumMaxScore(Tail(qs))

RECURSIVE PaperMaxScore(_)
PaperMaxScore(sections) ==
  IF sections = <<>> THEN 0
  ELSE SumMaxScore(Head(sections).questions) + PaperMaxScore(Tail(sections))

ShownMaxTotalScore == IF variant = 1 THEN score.max ELSE result[1].maxTotalScore

\* C7: the maxTotalScore a submission produces is the sum of maxScore over
\* all questions of the paper, whatever was answered or failed to be graded.
C7_MaxTotalIsSumOfMaxScores ==
  showResult => ShownMaxTotalScore = PaperMaxScore(Paper.sections)

C7_Witness ==
  /\ showResult
  /\ sub.failed # {}
  /\ \E q \in ObjectiveQuestions(Paper) : q.id \notin DOMAIN sub.answers

\* C8: for a writing question without a non-empty answer handleSubmit issues
\* no gradeWriting call, records no feedback entry and awards 0.
C8_EmptyEssayNotGraded ==
  sub.pc # "idle" =>
    \A q \in WritingQuestions(Paper) :
      Unanswered(q, sub.answers) =>
        /\ q.id \notin Range(sub.issued)
        /\ q.id \notin DOMAIN sub.fb
        /\ q.id \in DOMAIN sub.awarded => sub.awarded[q.id] = 0

\* C9: a writing question whose gradeWriting call failed contributes 0 and
\* has no feedback entry, the run goes on after it, and in the finished run
\* every other graded writing question has its entry and its score added.
C9_FailedEssayContained ==
  /\ sub.failed # {} => sub.pc # "threw"
  /\ \A id \in sub.failed : id \notin DOMAIN sub.fb /\ sub.awarded[id] = 0
  /\ sub.pc = "done" =>
       /\ DOMAIN writingFeedback = Range(sub.issued) \ sub.failed
       /\ \A id \in Range(sub.issued) \ sub.failed :
            sub.awarded[id] = writingFeedback[id].score

\* C10: a submitted test whose gradeWriting calls all return or fail reaches
\* the result state with the grading flag false, unless the user leaves the
\* view first.
C10_SubmissionReachesResult ==
  (PaperShown /\ grading) ~> ((showResult /\ ~grading) \/ ~PaperShown)

RECURSIVE AllQuestions(_)
AllQuestions(sections) ==
  IF sections = <<>> THEN <<>>
  ELSE Head(sections).questions \o AllQuestions(Tail(sections))

IsWriting(q) == q.type = "writing"

\* the ids of the writing questions of p in document order
WritingIds(p) ==
  LET w == SelectSeq(AllQuestions(p.sections), IsWriting)
  IN [i \in 1..Len(w) |-> w[i].id]

\* a can be obtained from b by deleting elements
RECURSIVE IsSubsequence(_, _)
IsSubsequence(a, b) ==
  IF a = <<>> THEN TRUE
  ELSE IF b = <<>> THEN FALSE
  ELSE IF Head(a) = Head(b) THEN IsSubsequence(Tail(a), Tail(b))
  ELSE IsSubsequence(a, Tail(b))

\* the gradeWriting call for question id has returned or failed
Settled(id) == id \in DOMAIN sub.fb \/ id \in sub.failed

\* C11: the gradeWriting calls of one submission are issued in document
\* order, at most one per writing question, and a call is issued only when
\* every call issued before it has returned or failed; the call a suspended
\* run waits for is the last one issued and the only one outstanding.
C11_GradingCallsSequential ==
  sub.pc # "idle" =>
    /\ IsSubsequence(sub.issued, WritingIds(Paper))
    /\ \A i \in 1..(Len(sub.issued) - 1) : Settled(sub.issued[i])
    /\ sub.pc = "await" =>
         /\ sub.issued # <<>>
         /\ sub.issued[Len(sub.issued)] = CurQ(Paper, sub).id
         /\ ~Settled(sub.issued[Len(sub.issued)])
    /\ sub.pc \in {"done", "threw"} =>
         \A i \in 1..Len(sub.issued) : Settled(sub.issued[i])

C11_Witness ==
  /\ sub.pc = "await"
  /\ Len(sub.issued) = 2
  /\ sub.failed # {}

\* requests to the gateway that have not returned yet: the one a start
\* handler waits for, the one the mounted view's handleSubmit waits for, and
\* one for every handleSubmit still running for a view that was left
Outstanding ==
  (IF start.pc # "idle" THEN 1 ELSE 0)
  + (IF sub.pc = "await" THEN 1 ELSE 0)
  + Len(orphans)

\* C12: at most one generation or grading request is outstanding.
C12_AtMostOneRequest == Outstanding <= 1

\* C13: once a view's handleSubmit has started (grading, or its result shown)
\* it cannot be started again for that view, and while isLoading neither
\* start handler can be triggered.
C13_NoReentrantStart ==
  /\ [](grading => ~ENABLED HandleSubmit)
  /\ [](sub.pc # "idle" => ~ENABLED HandleSubmit)
  /\ [](isLoading => ~ENABLED HandleVocabStart /\ ~ENABLED HandleTestStart)

C13_Witness == PaperShown /\ grading /\ sub.pc = "await" /\ sub.edits > 0

\* C14: the completion of a call that was outstanding when the user went to
\* the Dashboard changes neither mode, practiceData, testPaper nor the state
\* of the view shown now.
C14_LateResultDiscarded ==
  [][ /\ (start.pc # "idle" /\ start.left /\ start'.pc = "idle") =>
           /\ mode' = mode
           /\ practiceData' = practiceData
           /\ testPaper' = testPaper
      /\ (orphans # <<>> /\ Len(orphans') <= Len(orphans) /\ orphans' # orphans) =>
           UNCHANGED <<mode, practiceData, testPaper, viewVars>> ]_vars

\* C15: no start handler runs with an empty list of units, and with an empty
\* selection on the Dashboard neither start can be triggered.
C15_NoStartWithoutUnits ==
  /\ [](start.pc # "idle" => start.units # <<>>)
  /\ [](DashboardShown /\ selectedUnits.vocab = <<>> => ~ENABLED HandleVocabStart)
  /\ [](DashboardShown /\ selectedUnits.test = <<>> => ~ENABLED HandleTestStart)

C15_Witness ==
  DashboardShown /\ selectedUnits.vocab = <<>> /\ selectedUnits.test = <<>>

\* C16: a step that returns to the Dashboard from VocabPractice or from a
\* test (in progress or with its result shown) ends with mode = Dashboard and
\* without the data of the session that was left.
C16_ReturnDiscardsSession ==
  [][ /\ (PracticeShown /\ mode' = Dashboard) => practiceData' = Null
      /\ (PaperShown /\ mode' = Dashboard) =>
           /\ testPaper' = Null
           /\ answers' = <<>> /\ ~showResult' /\ result' = Null
      /\ (BackFromPractice \/ BackFromTest \/ NavDashboard) => mode' = Dashboard
    ]_vars

\* C17: practiceData and testPaper are never both held.
C17_AtMostOneSession == ~(practiceData # Null /\ testPaper # Null)

\* C18: whenever a view is shown other than Setup, change-textbook can be
\* taken, and it leads to mode = Setup.
C18_ChangeTextbookAlwaysEnabled ==
  /\ [](~isLoading /\ mode # Setup => ENABLED ChangeConfig)
  /\ [][ChangeConfig => mode' = Setup]_vars

\* C19: the change-textbook step clears practiceData and testPaper, so none
\* is held in Setup mode or after the next selection is saved.
C19_ChangeTextbookDiscardsData ==
  [][ChangeConfig => practiceData' = Null /\ testPaper' = Null]_vars

CompleteConfig(c) ==
  /\ DOMAIN c = {"publisher", "grade", "term"}
  /\ c.publisher # "" /\ c.grade # "" /\ c.term # ""

\* C20: the application starts in Setup without a config; saving in Setup
\* gives mode Dashboard and a complete config; outside Setup the config is
\* always there and complete.
C20_ConfigBeforeSession ==
  /\ mode = Setup /\ config = Null
  /\ [](mode # Setup => config # Null /\ CompleteConfig(config[1]))
  /\ [][(\E c \in Configs : HandleConfigSave(c)) =>
          mode' = Dashboard /\ config' # Null /\ CompleteConfig(config'[1])]_vars

C20_Witness ==
  /\ mode = TestPaper
  /\ config # Null
  /\ config[1].grade = "Grade 8"

\* C21: config is written only by a save in Setup mode that ends in
\* Dashboard mode, and never while a generation or grading request is
\* outstanding.
C21_ConfigStableDuringSession ==
  [][config' # config =>
       /\ mode = Setup
       /\ mode' = Dashboard
       /\ Outstanding = 0]_vars

\* what the finished run added to the total for the questions qs
RECURSIVE SumAwarded(_)
SumAwarded(qs) ==
  IF qs = <<>> THEN 0 ELSE sub.awarded[Head(qs).id] + SumAwarded(Tail(qs))

RECURSIVE SumSectionScores(_, _)
SumSectionScores(sections, scores) ==
  IF sections = <<>> THEN 0
  ELSE scores[Head(sections).id] + SumSectionScores(Tail(sections), scores)

ShownTotalScore == IF variant = 1 THEN score.total ELSE result[1].totalScore

RECURSIVE SumObjectiveAwards(_)
SumObjectiveAwards(qs) ==
  IF qs = <<>> THEN 0
  ELSE (IF Head(qs).type \in ObjectiveTypes THEN sub.awarded[Head(qs).id] ELSE 0)
       + SumObjectiveAwards(Tail(qs))

RECURSIVE SumFeedbackScores(_, _)
SumFeedbackScores(qs, fb) ==
  IF qs = <<>> THEN 0
  ELSE (IF Head(qs).id \in DOMAIN fb THEN fb[Head(qs).id].score ELSE 0)
       + SumFeedbackScores(Tail(qs), fb)

\* C23: every score gradeWriting returned is in the total as returned, not
\* limited by the question's maxScore or by 0: the total of a finished
\* submission is the objective awards plus the scores of the recorded
\* feedback entries.
C23_EssayScoreNotClamped ==
  sub.pc = "done" =>
    ShownTotalScore =
      SumObjectiveAwards(AllQuestions(Paper.sections))
      + SumFeedbackScores(AllQuestions(Paper.sections), writingFeedback)

C23_Witness ==
  /\ sub.pc = "done"
  /\ \E q \in WritingQuestions(Paper) :
       q.id \in DOMAIN writingFeedback /\ writingFeedback[q.id].score > q.maxScore
  /\ \E q \in WritingQuestions(Paper) :
       q.id \in DOMAIN writingFeedback /\ writingFeedback[q.id].score < 0

\* one outcome for each gradeWriting call a run on p can make
OutcomeSeqs(p) == [1..Len(WritingIds(p)) -> CallOutcomes]

\* what a run has added to the total for question q
Contribution(st, q) == IF q.id \in DOMAIN st.awarded THEN st.awarded[q.id] ELSE 0

ObjectiveOnly(sec) ==
  \A j \in 1..Len(sec.questions) : sec.questions[j].type \in ObjectiveTypes

\* C24: two runs of handleSubmit on the shown paper with the same answers
\* award the same score to every objective question, and the same score to
\* every section made of objective questions, however the gradeWriting calls
\* of the two runs end.
C24_ObjectiveGradingDeterministic ==
  (PaperShown /\ sub.pc = "idle") =>
    \A o1, o2 \in OutcomeSeqs(Paper) :
      LET r1 == FullRun(variant, gateway, Paper, answers, o1)
          r2 == FullRun(variant, gateway, Paper, answers, o2)
      IN /\ \A q \in ObjectiveQuestions(Paper) :
              Contribution(r1, q) = Contribution(r2, q)
         /\ \A i \in 1..Len(Paper.sections) :
              (variant = 2 /\ ObjectiveOnly(Paper.sections[i])) =>
                Get(r1.sectionScores, Paper.sections[i].id)
                  = Get(r2.sectionScores, Paper.sections[i].id)

\* ------------------------------------------------------------- gateway
\* One request to the endpoint and callApi's handling of its answer: the
\* request and what the model call does are drawn from Requests and
\* ServiceOutcomes, the handler answers, callApi settles.
GatewayInit ==
  /\ variant \in {1, 2}
  /\ gateway = "api"
  /\ mode = Setup
  /\ config = Null
  /\ practiceData = Null
  /\ testPaper = Null
  /\ isLoading = FALSE
  /\ alertShown = NoAlert
  /\ start = StartIdle("none")
  /\ selectedUnits = DashInit
  /\ ViewInit
  /\ orphans = <<>>
  /\ sources = <<>>
  /\ \E req \in Requests : \E service \in ServiceOutcomes :
       exchange = [NoExchange EXCEPT !.pc = "sent", !.req = req, !.service = service]
  /\ practiceView = NoPracticeView

GatewayAnswers ==
  /\ exchange.pc = "sent"
  /\ exchange' = [exchange EXCEPT !.pc = "answered",
                                  !.resp = GatewayHandler(exchange.req, exchange.service)]
  /\ UNCHANGED <<variant, gateway, selectedUnits, appVars, viewVars, orphans, audioVars,
                 showListeningScript, practiceView>>

CallApiSettles ==
  /\ exchange.pc = "answered"
  /\ exchange' = [exchange EXCEPT !.pc = "done", !.out = CallApi(exchange.resp)]
  /\ UNCHANGED <<variant, gateway, selectedUnits, appVars, viewVars, orphans, audioVars,
                 showListeningScript, practiceView>>

GatewayNext == GatewayAnswers \/ CallApiSettles

GatewaySpec == GatewayInit /\ [][GatewayNext]_vars

\* ------------------------------------------------------------- vocabulary ids
\* generateVocabAndGrammar with its id assignment: the items the service
\* answers with, and the readings of Date.now() while they are mapped.
VocabWords == { <<"a">>, <<"A", " ">> }
RawVocab == UNION { [1..n -> VocabWords] : n \in 0..MaxItems }

\* the id `vocab-${Date.now()}-${index}`
VocabId(now, index) == [now |-> now, index |-> index]

\* (data.vocab || []).map((item, index) => ({ ...item, id }))
VocabWithIds(raw, stamps) ==
  [i \in 1..Len(raw) |-> [id |-> VocabId(stamps[i], i - 1), english |-> raw[i]]]

\* the latest reading the stored session was stamped with, 1 if there is none
RECURSIVE LatestStamp(_)
LatestStamp(items) ==
  IF items = <<>> THEN 1
  ELSE LET rest == LatestStamp(Tail(items))
       IN IF Head(items).id.now > rest THEN Head(items).id.now ELSE rest

\* readings of a clock that does not run backwards, one for each item
Stamps(n, from) ==
  { t \in [1..n -> from..MaxClock] : \A i \in 1..n : \A j \in i..n : t[i] <= t[j] }

VocabReceived ==
  \E raw \in RawVocab :
    \E stamps \in Stamps(Len(raw), IF practiceData = Null THEN 1
                                     ELSE LatestStamp(practiceData[1].vocab)) :
      VocabStartOk([vocab |-> VocabWithIds(raw, stamps), grammar |-> "grammar"])

IdNext ==
  \/ \E c \in Configs : HandleConfigSave(c)
  \/ \E u \in Units : ToggleUnit("vocab", u)
  \/ HandleVocabStart
  \/ VocabReceived
  \/ VocabStartErr
  \/ BackFromPractice
  \/ NavLogo

IdSpec == Init /\ [][IdNext]_vars

\* ------------------------------------------------------------- practice
\* VocabPracticeView on many sessions: the vocabulary lists with a fixed
\* passage, and the grammar passages (stories put together from pieces, with
\* lists of blanks) with an empty vocabulary list.
StoryPieces ==
  { <<"x">>, <<"{">>, <<"{", "{">>, <<"}", "}">>, <<"{", "1", "}">>,
    <<"{", "{", "}", "}">>, <<"{", "{", "x", "}", "}">>,
    <<"{", "{", "1", "}", "}">>, <<"{", "{", "2", "}", "}">>,
    <<"{", "{", "1", "2", "}", "}">> }

RECURSIVE Stories(_)
Stories(n) ==
  IF n = 0 THEN { <<>> }
  ELSE Stories(n - 1) \cup { st \o piece : st \in Stories(n - 1), piece \in StoryPieces }

Blank(id, answer) == [id |-> id, answer |-> answer]

BlankLists ==
  { <<>>, <<Blank(1, <<"a">>)>>, <<Blank(2, <<"a">>)>>, <<Blank(12, <<"a">>)>>,
    <<Blank(1, <<"a">>), Blank(2, <<"a">>)>>, <<Blank(2, <<"a">>), Blank(1, <<"a">>)>>,
    <<Blank(1, <<"a">>), Blank(1, <<"A">>)>> }

Digits == {"1", "2"}
DigitValue(c) == IF c = "1" THEN 1 ELSE 2

\* parseInt of a run of digits
RECURSIVE ParseInt(_)
ParseInt(ds) ==
  IF ds = <<>> THEN 0
  ELSE 10 * ParseInt(SubSeq(ds, 1, Len(ds) - 1)) + DigitValue(ds[Len(ds)])

\* the end of the run of digits that starts at j (j - 1 if there is none)
RECURSIVE DigitsEnd(_, _)
DigitsEnd(t, j) ==
  IF j <= Len(t) /\ t[j] \in Digits THEN DigitsEnd(t, j + 1) ELSE j - 1

\* /\{\{\d+\}\}/ at position i of t: the position of its last character, 0
\* if it does not match there
MatchEnd(t, i) ==
  IF i + 1 <= Len(t) /\ t[i] = "{" /\ t[i + 1] = "{"
  THEN LET e == DigitsEnd(t, i + 2)
       IN IF e >= i + 2 /\ e + 2 <= Len(t) /\ t[e + 1] = "}" /\ t[e + 2] = "}"
          THEN e + 2 ELSE 0
  ELSE 0

\* story.split(/(\{\{\d+\}\})/g) from position i on, cur the text before i
RECURSIVE SplitFrom(_, _, _)
SplitFrom(t, i, cur) ==
  IF i > Len(t) THEN <<cur>>
  ELSE IF MatchEnd(t, i) > 0
  THEN <<cur, SubSeq(t, i, MatchEnd(t, i))>> \o SplitFrom(t, MatchEnd(t, i) + 1, <<>>)
  ELSE SplitFrom(t, i + 1, Append(cur, t[i]))

Split(t) == SplitFrom(t, 1, <<>>)

\* segment.match(/\{\{(\d+)\}\}/): the digits of the first match, Null if none
SegmentMatch(seg) ==
  LET at == {i \in 1..Len(seg) : MatchEnd(seg, i) > 0}
  IN IF at = {} THEN Null
     ELSE LET i == CHOOSE x \in at : \A y \in at : x <= y
          IN Some(SubSeq(seg, i + 2, MatchEnd(seg, i) - 2))

\* data.blanks.find(b => b.id === id): the index of the first such blank, 0
FindBlank(blanks, id) ==
  LET at == {i \in 1..Len(blanks) : blanks[i].id = id}
  IN IF at = {} THEN 0 ELSE CHOOSE x \in at : \A y \in at : x <= y

\* what is rendered for one segment: the text, an input bound to a blank,
\* the [Error] marker (variant 1), or nothing (variant 2: return null)
Rendered(kind, id, blank, text) == [kind |-> kind, id |-> id, blank |-> blank, text |-> text]

RenderSegment(v, blanks, seg) ==
  LET m == SegmentMatch(seg)
  IN IF m = Null THEN Rendered("text", 0, 0, seg)
     ELSE LET id == ParseInt(m[1])
              b == FindBlank(blanks, id)
          IN IF b = 0
             THEN IF v = 1 THEN Rendered("error", id, 0, <<>>)
                  ELSE Rendered("nothing", id, 0, <<>>)
             ELSE Rendered("input", id, b, <<>>)

\* GrammarSection: segments.map(...)
RenderGrammar(v, grammar) ==
  LET segments == Split(grammar.story)
  IN [k \in 1..Len(segments) |-> RenderSegment(v, grammar.blanks, segments[k])]

PlainGrammar == [story |-> <<"x">>, blanks |-> <<>>]

PracticeSessions ==
  { [vocab |-> VocabWithIds(raw, [i \in 1..Len(raw) |-> 1]), grammar |-> PlainGrammar] :
      raw \in RawVocab }
  \cup { [vocab |-> <<>>, grammar |-> [story |-> st, blanks |-> bl]] :
           st \in Stories(MaxPieces), bl \in BlankLists }

\* texts typed into a spelling input
VocabInputs == { <<>>, <<"A">>, <<"a", "a">> }

VocabTabShown == PracticeShown /\ practiceView.mounted /\ practiceView.activeTab = "vocab"

\* setActiveTab: the tab that is left is unmounted (in variant 1 the
\* VocabSection with its state), the tab that is entered is rendered
SetActiveTab(tab) ==
  /\ PracticeShown
  /\ practiceView.mounted
  /\ practiceView' =
       IF tab = practiceView.activeTab THEN practiceView
       ELSE [MountPractice(practiceData[1].vocab) EXCEPT
               !.activeTab = tab,
               !.rendered = IF tab = "grammar"
                            THEN RenderGrammar(variant, practiceData[1].grammar)
                            ELSE <<>>]
  /\ UNCHANGED <<variant, gateway, exchange, showListeningScript, audioVars, selectedUnits,
                 appVars, viewVars, orphans>>

\* VocabSection (variant 1): onChange of the input of active item i
VocabInput(i, val) ==
  /\ variant = 1
  /\ VocabTabShown
  /\ ~practiceView.isReview
  /\ i \in 1..Len(practiceView.activeItems)
  /\ practiceView' = [practiceView EXCEPT
                        !.userInputs = (practiceView.activeItems[i].id :> val) @@ @]
  /\ UNCHANGED <<variant, gateway, exchange, showListeningScript, audioVars, selectedUnits,
                 appVars, viewVars, orphans>>

\* (userInputs[item.id] || "").trim().toLowerCase() !== item.english.trim().toLowerCase()
Misspelled(inputs, item) ==
  ToLowerCase(Trim(IF item.id \in DOMAIN inputs THEN inputs[item.id] ELSE <<>>))
    # ToLowerCase(Trim(item.english))

RECURSIVE Filter(_, _)
Filter(items, ids) ==
  IF items = <<>> THEN <<>>
  ELSE IF Head(items).id \in ids THEN <<Head(items)>> \o Filter(Tail(items), ids)
  ELSE Filter(Tail(items), ids)

RECURSIVE NewMistakes(_, _)
NewMistakes(inputs, items) ==
  IF items = <<>> THEN <<>>
  ELSE IF Misspelled(inputs, Head(items))
  THEN <<Head(items).id>> \o NewMistakes(inputs, Tail(items))
  ELSE NewMistakes(inputs, Tail(items))

\* VocabSection.handleSubmit (Check Spelling Answers)
VocabHandleSubmit ==
  /\ variant = 1
  /\ VocabTabShown
  /\ ~practiceView.isReview
  /\ practiceView' = [practiceView EXCEPT
                        !.mistakes = NewMistakes(practiceView.userInputs,
                                                 practiceView.activeItems),
                        !.isReview = TRUE]
  /\ UNCHANGED <<variant, gateway, exchange, showListeningScript, audioVars, selectedUnits,
                 appVars, viewVars, orphans>>

\* a retry button that is there without mistakes too
HandleRetryUnguarded ==
  /\ variant = 1
  /\ VocabTabShown
  /\ practiceView.isReview
  /\ LET mistakeItems == Filter(practiceData[1].vocab,
                                {practiceView.mistakes[k] : k \in 1..Len(practiceView.mistakes)})
     IN practiceView' = [practiceView EXCEPT
                           !.activeItems = mistakeItems,
                           !.userInputs = [id \in {mistakeItems[k].id : k \in 1..Len(mistakeItems)}
                                             |-> <<>>],
                           !.mistakes = <<>>,
                           !.isReview = FALSE]
  /\ UNCHANGED <<variant, gateway, exchange, showListeningScript, audioVars, selectedUnits,
                 appVars, viewVars, orphans>>

\* VocabSection.handleRetry; its button is rendered in review with mistakes
HandleRetry ==
  /\ variant = 1
  /\ VocabTabShown
  /\ practiceView.isReview
  /\ Len(practiceView.mistakes) > 0
  /\ LET mistakeItems == Filter(practiceData[1].vocab,
                                {practiceView.mistakes[k] : k \in 1..Len(practiceView.mistakes)})
     IN practiceView' = [practiceView EXCEPT
                           !.activeItems = mistakeItems,
                           !.userInputs = [id \in {mistakeItems[k].id : k \in 1..Len(mistakeItems)}
                                             |-> <<>>],
                           !.mistakes = <<>>,
                           !.isReview = FALSE]
  /\ UNCHANGED <<variant, gateway, exchange, showListeningScript, audioVars, selectedUnits,
                 appVars, viewVars, orphans>>

\* VocabSection.handleFullReset (Restart), rendered in review
HandleFullReset ==
  /\ variant = 1
  /\ VocabTabShown
  /\ practiceView.isReview
  /\ practiceView' = [practiceView EXCEPT
                        !.activeItems = practiceData[1].vocab,
                        !.userInputs = <<>>,
                        !.mistakes = <<>>,
                        !.isReview = FALSE]
  /\ UNCHANGED <<variant, gateway, exchange, showListeningScript, audioVars, selectedUnits,
                 appVars, viewVars, orphans>>

PracticeInit ==
  /\ variant \in {1, 2}
  /\ gateway = "api"
  /\ mode = VocabPractice
  /\ config = Some(CHOOSE c \in Configs : TRUE)
  /\ \E d \in PracticeSessions :
       /\ practiceData = Some(d)
       /\ practiceView = MountPractice(d.vocab)
  /\ testPaper = Null
  /\ isLoading = FALSE
  /\ alertShown = NoAlert
  /\ start = StartIdle("vocabOk")
  /\ selectedUnits = DashInit
  /\ ViewInit
  /\ orphans = <<>>
  /\ sources = <<>>
  /\ exchange = NoExchange

PracticeNext ==
  \/ \E tab \in {"vocab", "grammar"} : SetActiveTab(tab)
  \/ \E i \in 1..MaxItems : \E val \in VocabInputs : VocabInput(i, val)
  \/ VocabHandleSubmit
  \/ HandleRetry
  \/ HandleFullReset

PracticeSpec == PracticeInit /\ [][PracticeNext]_vars

\* ------------------------------------------------------------- audio claims
\* 16-bit samples, and the two little-endian bytes each is written as
SampleValues == {-32768, -256, -1, 0, 1, 255, 32767}
SampleSeqs == UNION { [1..n -> SampleValues] : n \in 0..(MaxBytes \div 2) }

RECURSIVE PcmBytes(_)
PcmBytes(samples) ==
  IF samples = <<>> THEN <<>>
  ELSE LET u == IF Head(samples) < 0 THEN Head(samples) + 65536 ELSE Head(samples)
       IN <<u % 256, u \div 256>> \o PcmBytes(Tail(samples))

Payload == Paper.listeningAudioBase64[1]

\* C25: for every sequence of signed 16-bit samples written as little-endian
\* byte pairs and base64-encoded, the decode steps of playAudio succeed and
\* yield as many samples as were written, sample i being input sample i over
\* 32768; a source playAudio started for that payload carries exactly them.
C25_DecodeRoundTrip ==
  \A s \in SampleSeqs :
    Payload = Base64Encode(PcmBytes(s)) =>
      LET d == DecodeAudio(Payload)
          out == [k \in 1..Len(s) |-> [num |-> s[k], den |-> 32768]]
      IN /\ d # Null
         /\ Len(d[1].buf) = Len(s)
         /\ d[1].buf = out
         /\ \A i \in Mounted(sources) : sources[i].buf = out

C25_Witness ==
  /\ isPlaying
  /\ Payload = Base64Encode(PcmBytes(<<-32768, 255>>))
  /\ Len(sources) = 1
  /\ sources[1].buf = <<[num |-> -32768, den |-> 32768], [num |-> 255, den |-> 32768]>>

\* C26: the bytes a started source was decoded from are even in number, byte
\* pair k (lo, hi) gives the integer lo + 256*hi, less 65536 when hi >= 128,
\* which lies in -32768..32767, and the normalized sample lies in [-1, 1).
C26_SampleRange ==
  \A i \in 1..Len(sources) :
    LET b == sources[i].bytes
        f == sources[i].buf
    IN /\ Len(b) % 2 = 0
       /\ Len(f) = Len(b) \div 2
       /\ \A k \in 1..Len(f) :
            LET lo == b[2 * k - 1]
                hi == b[2 * k]
            IN /\ f[k].num = lo + 256 * hi - (IF hi >= 128 THEN 65536 ELSE 0)
               /\ f[k].num \in -32768..32767
               /\ f[k].den > 0
               /\ -f[k].den <= f[k].num
               /\ f[k].num < f[k].den

C26_Witness ==
  /\ Len(sources) = 1
  /\ sources[1].bytes = <<0, 128, 255, 127>>
  /\ sources[1].buf = <<[num |-> -32768, den |-> 32768], [num |-> 32767, den |-> 32768]>>

\* payloads whose decoding fails: malformed base64, or an odd number of bytes
FailingTexts ==
  MalformedTexts \cup { Base64Encode(b) : b \in {x \in ByteSeqs : Len(x) % 2 = 1} }

\* C27: a play click on a payload whose decoding fails leaves isPlaying false,
\* starts no source and changes neither mode, paper, answers nor score; with
\* such a payload nothing plays, the test can be answered and submitted, and
\* the submission's outcome is that of the same paper without audio.
C27_DecodeFailureContained ==
  /\ [][ ( /\ PlayClickable
           /\ Payload \in FailingTexts
           /\ <<isPlaying, sources, alertShown>>' # <<isPlaying, sources, alertShown>> )
         => ( /\ isPlaying' = FALSE
              /\ sources' = sources
              /\ alertShown' = AlertAudio
              /\ UNCHANGED <<mode, testPaper, viewVars>> ) ]_vars
  /\ []( (PaperShown /\ Payload \in FailingTexts) =>
           /\ ~isPlaying
           /\ sources = <<>>
           /\ ~showResult =>
                /\ ENABLED HandleSubmit
                /\ \A q \in Questions(Paper) : \A val \in InputValues(variant, q) :
                     ENABLED HandleAnswer(q, val)
           /\ showResult =>
                LET run == FullRun(variant, gateway, WithoutAudio(Paper), answers, <<>>)
                IN score = [total |-> run.totalScore, max |-> run.maxTotalScore] )

C27_Witness ==
  /\ PaperShown
  /\ Payload = Base64Encode(<<1, 0, 255>>)
  /\ alertShown = AlertAudio
  /\ ~isPlaying
  /\ showResult
  /\ score = [total |-> 2, max |-> 2]

\* C28: at most one audio playback is active at any time, whatever the play
\* clicks, exits to Dashboard, submissions and newly generated papers: the
\* sources that were started and have not ended are never more than one.
C28_OnePlaybackAtATime == Len(sources) <= 1

\* ------------------------------------------------------------- gateway claims
\* C29: for every answer of the server that is no success (405 for a method
\* other than POST, 400 for an unknown action, 500 for an exception, with a
\* JSON body or without) callApi throws and returns no value; it returns a
\* value only for a success response.
C29_FailureThrows ==
  exchange.pc = "done" =>
    LET req == exchange.req
        resp == exchange.resp
        out == exchange.out
    IN /\ req.method # "POST" => resp.status = 405
       /\ (req.method = "POST" /\ req.body.form = "object"
             /\ req.body.action \notin ActionTags) => resp.status = 400
       /\ (req.method = "POST" /\ req.body.form = "object"
             /\ req.body.action \in ActionTags
             /\ exchange.service \in {"throws", "throwsBlank"}) => resp.status = 500
       /\ resp.status \in {400, 405, 500} => out.threw /\ out.value = Null
       /\ resp.status \notin 200..299 => out.threw /\ out.value = Null
       /\ out.threw <=> out.value = Null
       /\ out.value # Null => resp.status \in 200..299

C29_Witness ==
  /\ exchange.pc = "done"
  /\ exchange.req = ClientRequest("gradeWriting")
  /\ exchange.resp.status = 500
  /\ exchange.resp.body = JsonObject(Some("service failed"), "none")
  /\ exchange.out = ApiThrew("", "service failed")

\* C30: every request is answered with a success response whose body is the
\* JSON of the requested action's kind, or with a response that is no success
\* and whose body is a JSON object with an error string; each of the five
\* action tags reaches its own handler and no other.
C30_ResponseShape ==
  exchange.pc \in {"answered", "done"} =>
    LET req == exchange.req
        resp == exchange.resp
    IN /\ \/ /\ resp.status \in 200..299
             /\ resp.body = JsonObject(Null, req.body.action)
          \/ /\ resp.status \notin 200..299
             /\ resp.body.form = "object"
             /\ resp.body.error # Null
       /\ req \in {ClientRequest(a) : a \in ActionTags} =>
            Reached(req) = CASE req.body.action = "generateVocabAndGrammar" -> "handleVocab"
                             [] req.body.action = "generateTestPaper" -> "handleTestPaper"
                             [] req.body.action = "generateSpeech" -> "handleSpeech"
                             [] req.body.action = "gradeWriting" -> "handleGrading"
                             [] req.body.action = "lookupWord" -> "handleLookup"

C32_SpeechOnlyForScript ==
  /\ [][ (start.pc # "speech" /\ start'.pc = "speech") =>
            /\ start.pc = "paper"
            /\ start'.paper # Null
            /\ start'.paper[1].listeningScript \notin {Null, Some(<<>>)} ]_vars
  /\ [][ (start.pc = "paper" /\ start'.pc # "paper") =>
            \/ start'.pc = "speech"
            \/ /\ start' = StartIdle("paperFailed")
               /\ testPaper' = testPaper
            \/ /\ start' = StartIdle("noScript")
               /\ testPaper' # Null
               /\ testPaper'[1].listeningScript \in {Null, Some(<<>>)} ]_vars
  /\ [][ (start.pc = "speech" /\ start'.pc # "speech") =>
            /\ start'.pc = "idle"
            /\ testPaper' = Some(start.paper[1])
                 \/ \E a \in AudioPayloads :
                      testPaper' = Some([start.paper[1] EXCEPT
                                           !.listeningAudioBase64 = Some(a)]) ]_vars
  /\ [](start.pc = "speech" =>
           /\ mode = Dashboard
           /\ testPaper = start.before[1].testPaper)

C32_Witness ==
  /\ start.pc = "speech"
  /\ start.paper = Some(PaperListening)
  /\ testPaper # Null
  /\ testPaper[1] = PaperNoKey
  /\ mode = Dashboard

\* ------------------------------------------------------------- practice claims
VocabIds(data) == { data.vocab[i].id : i \in 1..Len(data.vocab) }

\* C33: every vocabulary item of a stored practice session has an id given
\* at receipt, the ids of one session are pairwise distinct, and the ids a
\* generation call assigns are none of those the call before it assigned.
C33_UniqueVocabIds ==
  /\ [](practiceData # Null =>
          \A i, j \in 1..Len(practiceData[1].vocab) :
            i # j => practiceData[1].vocab[i].id # practiceData[1].vocab[j].id)
  /\ [][ (start.pc = "vocab" /\ start'.pc = "idle" /\ start'.out = "vocabOk"
            /\ practiceData # Null)
          => VocabIds(practiceData'[1]) \cap VocabIds(practiceData[1]) = {} ]_vars

\* the positions of a story where a placeholder {{n}} starts, and its n
PlaceholderEnds(story, i) ==
  { e \in (i + 2)..(Len(story) - 2) :
      /\ story[i] = "{" /\ story[i + 1] = "{"
      /\ \A k \in (i + 2)..e : story[k] \in Digits
      /\ story[e + 1] = "}" /\ story[e + 2] = "}" }

PlaceholderStarts(story) == { i \in 1..Len(story) : PlaceholderEnds(story, i) # {} }

PlaceholderNumber(story, i) ==
  ParseInt(SubSeq(story, i + 2, CHOOSE e \in PlaceholderEnds(story, i) : TRUE))

\* the k-th smallest element of a set of numbers
Nth(S, k) == CHOOSE x \in S : Cardinality({y \in S : y < x}) = k - 1

IsNoText(r) == r.kind # "text"

\* C34: the grammar tab renders, for the placeholders of the story in their
\* order, one element each: for a placeholder {{n}} that has a blank with id
\* n an input bound to such a blank, for one that has none a visible error
\* marker; everything else it renders is text.
C34_PlaceholdersSurfaced ==
  (PracticeShown /\ practiceView.mounted /\ practiceView.activeTab = "grammar") =>
    LET g == practiceData[1].grammar
        starts == PlaceholderStarts(g.story)
        marks == SelectSeq(practiceView.rendered, IsNoText)
    IN /\ Len(marks) = Cardinality(starts)
       /\ \A k \in 1..Len(marks) :
            LET n == PlaceholderNumber(g.story, Nth(starts, k))
            IN IF \E b \in 1..Len(g.blanks) : g.blanks[b].id = n
               THEN /\ marks[k].kind = "input"
                    /\ marks[k].blank \in 1..Len(g.blanks)
                    /\ g.blanks[marks[k].blank].id = n
               ELSE marks[k].kind = "error"

\* the VocabSection invariants, but for the size of activeItems
VocabSectionSound ==
  LET items == practiceData[1].vocab
      act == practiceView.activeItems
      mist == practiceView.mistakes
      vocabScore == Len(act) - Len(mist)
  IN /\ IsSubsequence(act, items)
     /\ \A k \in 1..Len(mist) : \E i \in 1..Len(act) : act[i].id = mist[k]
     /\ vocabScore \in 0..Len(act)

\* retry-mistakes leaves exactly the items the check before it marked wrong,
\* an empty input for each of them, no mistakes, and review mode off
RetryLeavesMistakes ==
  [][ HandleRetry =>
        LET wrong(item) == Misspelled(practiceView.userInputs, item)
            kept == SelectSeq(practiceView.activeItems, wrong)
        IN /\ practiceView'.activeItems = kept
           /\ DOMAIN practiceView'.userInputs = {kept[i].id : i \in 1..Len(kept)}
           /\ \A id \in DOMAIN practiceView'.userInputs :
                practiceView'.userInputs[id] = <<>>
           /\ practiceView'.mistakes = <<>>
           /\ ~practiceView'.isReview ]_vars

\* C38 (as the code has it): in VocabSection, after any sequence of check,
\* retry-mistakes and restart actions, activeItems is a sub-sequence of the
\* original items in their order, not empty unless the original items are,
\* mistakes holds ids of activeItems only, the score lies in
\* 0..|activeItems|, and retry-mistakes leaves exactly the items marked
\* wrong, with cleared inputs and review mode off.
C38_VocabSectionInvariants ==
  /\ []((variant = 1 /\ VocabTabShown) =>
          /\ VocabSectionSound
          /\ practiceData[1].vocab # <<>> => practiceView.activeItems # <<>>)
  /\ RetryLeavesMistakes

C38_Witness ==
  /\ variant = 1
  /\ VocabTabShown
  /\ ~practiceView.isReview
  /\ Len(practiceData[1].vocab) = 2
  /\ practiceView.activeItems = <<practiceData[1].vocab[2]>>
  /\ DOMAIN practiceView.userInputs = {practiceData[1].vocab[2].id}

\* C38: in VocabSection, after any sequence of check, retry-mistakes and
\* restart actions, activeItems is a non-empty sub-sequence of the original
\* items in their order, mistakes holds ids of activeItems only, the score
\* lies in 0..|activeItems|, and retry-mistakes leaves exactly the items
\* marked wrong, with cleared inputs and review mode off.
C38_ActiveItemsNeverEmpty ==
  /\ []((variant = 1 /\ VocabTabShown) =>
          /\ VocabSectionSound
          /\ practiceView.activeItems # <<>>)
  /\ RetryLeavesMistakes


\* ------------------------------------------------- claims: the result view
\* The answers the result view displays.  Variant 1 renders the component's
\* `answers` state ("Your Answer: {answers[q.id] || ...}"); variant 2 renders
\* result.answers, the `answers` handleSubmit closed over.
DisplayedAnswers == IF variant = 1 THEN answers ELSE result[1].answers

ResultShown == PaperShown /\ showResult /\ (variant = 2 => result # Null)

\* C35: the answers shown with a test result are the answers that were
\* graded: whenever the result is shown, the answers the result view displays
\* are the answers handleSubmit read when it computed the score, also when
\* the user edited an answer while grading was pending.
C35_ShownAnswersAreGraded == ResultShown => DisplayedAnswers = sub.answers

\* isCorrect of the result view.  Variant 1: q.correctAnswer &&
\* answers[q.id]?.toLowerCase() === q.correctAnswer.toLowerCase(), on the
\* `answers` state; variant 2: q.type !== 'writing' && userAns ===
\* q.correctAnswer, on result.answers.
ResultMarksCorrect(v, q, ans) ==
  IF v = 1
  THEN /\ Truthy(q.correctAnswer)
       /\ q.id \in DOMAIN ans
       /\ ToLowerCase(ans[q.id]) = ToLowerCase(q.correctAnswer[1])
  ELSE q.type # "writing" /\ Get(ans, q.id) = q.correctAnswer

\* C36: the result view agrees with the grading: whenever the result is
\* shown, every objective question is marked correct by the result view if and
\* only if handleSubmit awarded it maxScore.
C36_ResultViewMatchesGrading ==
  ResultShown =>
    \A q \in ObjectiveQuestions(testPaper[1]) :
      ResultMarksCorrect(variant, q, DisplayedAnswers)
        <=> (q.id \in DOMAIN sub.awarded /\ sub.awarded[q.id] = q.maxScore)


\* ------------------------------------------------- claims: the loading flag
\* the call a start handler awaits (generateVocabAndGrammar, generateTestPaper,
\* generateSpeech) returns or fails, and the handler runs on to its next await
\* or through finally
StartCallCompletes ==
  \/ \E d \in PracticeResults : VocabStartOk(d)
  \/ VocabStartErr
  \/ \E p \in TestPapers : TestPaperOk(p)
  \/ TestPaperErr
  \/ \E a \in AudioPayloads : SpeechOk(a)
  \/ SpeechNoData
  \/ SpeechErr

\* App and its Dashboard: configuration, navigation, unit selection and the
\* two start handlers; the views opened by a start are left again
StartNext ==
  \/ \E c \in Configs : HandleConfigSave(c)
  \/ ChangeConfig
  \/ NavLogo
  \/ NavDashboard
  \/ BackFromPractice
  \/ BackFromTest
  \/ \E card \in {"vocab", "test"} : \E u \in Units : ToggleUnit(card, u)
  \/ HandleVocabStart
  \/ HandleTestStart
  \/ StartCallCompletes

StartFairSpec == Init /\ [][StartNext]_vars /\ WF_vars(StartCallCompletes)

\* a start handler ran to its end in this step
StartHandlerFinishes == start.pc # "idle" /\ start'.pc = "idle"

\* C37: the loading flag cannot get stuck: a start handler that finishes
\* leaves isLoading false whatever the outcome of its calls, a loading flag
\* that is set is eventually cleared provided each call returns or fails, and
\* while isLoading is true the mode stays Dashboard.
C37_LoadingNotStuck ==
  /\ [][StartHandlerFinishes => ~isLoading']_vars
  /\ [](isLoading => mode = Dashboard /\ start.pc # "idle")
  /\ (isLoading ~> ~isLoading)

\* the speech request of a paper failed and the handler has finished
C37_Witness ==
  /\ ~isLoading
  /\ start.out = "speechFailed"
  /\ mode = TestPaper


\* ------------------------------------------------- claims: unit selection
\* the selections the Dashboard holds: one per card in variant 1, one shared
\* by both cards in variant 2
Selections == {selectedUnits.vocab, selectedUnits.test}

Ascending(seq) == \A i \in 1..(Len(seq) - 1) : seq[i] < seq[i + 1]

\* a click on a unit button in this step added unit u to the selection of card
ToggledOn(card, u) ==
  /\ DashboardShown /\ DashboardShown'
  /\ ~Includes(selectedUnits[card], u)
  /\ Includes(selectedUnits'[card], u)

\* C39: after any sequence of toggleUnit actions the selected units are a
\* duplicate-free, ascending subset of the units on offer; in the first variant
\* the selection is never empty; and a toggle that switches a unit on leaves
\* every other unit as it was.
C39_SelectionSorted ==
  /\ [](\A sel \in Selections :
          /\ Range(sel) \subseteq Units
          /\ Ascending(sel)
          /\ (variant = 1 => sel # <<>>))
  /\ [][\A card \in {"vocab", "test"} : \A u \in Units :
          ToggledOn(card, u) =>
            Range(selectedUnits'[card]) = Range(selectedUnits[card]) \cup {u}]_vars

\* every unit is selected, which takes a toggle per unit besides the first
C39_Witness ==
  /\ DashboardShown
  /\ Range(selectedUnits.vocab) = Units

====
